---- MODULE Spec2Model ----
(***************************************************************************)
(* Startup research store: JSON result files are parsed, each candidate    *)
(* record is normalised and inserted into the SQLite table `startups`, and *)
(* the rows are read back, filtered and summarised.                        *)
(*                                                                         *)
(* Text is a sequence of one-character strings.  A JSON value is a record  *)
(* of one fixed shape (tag t, integer n, text s, elements l, members d) so *)
(* that any two values can be compared.                                    *)
(***************************************************************************)
EXTENDS Integers, Sequences, FiniteSets, TLC

(***************************************************************************)
(* Python / JSON values                                                    *)
(***************************************************************************)
None == [t |-> "null", n |-> 0, s |-> <<>>, l |-> <<>>, d |-> <<>>]
PyInt(k) == [t |-> "int", n |-> k, s |-> <<>>, l |-> <<>>, d |-> <<>>]
PyStr(x) == [t |-> "str", n |-> 0, s |-> x, l |-> <<>>, d |-> <<>>]
PyList(q) == [t |-> "list", n |-> 0, s |-> <<>>, l |-> q, d |-> <<>>]
\* True and False, with the integer they are equal to
PyBool(b) == [t |-> "bool", n |-> IF b THEN 1 ELSE 0, s |-> <<>>, l |-> <<>>, d |-> <<>>]
\* a dict is its members in insertion order, each [k |-> text, v |-> value]
PyDict(m) == [t |-> "dict", n |-> 0, s |-> <<>>, l |-> <<>>, d |-> m]

\* a float, kept exact as the quotient num / den
PyFloat(num, den) == [t |-> "float", n |-> num, s |-> <<>>, l |-> <<>>, d |-> <<den>>]

\* Python truth value: None, False, 0, '', [] and {} are falsy
Truthy(v) ==
    CASE v.t = "null" -> FALSE
      [] v.t = "int" -> v.n # 0
      [] v.t = "bool" -> v.n # 0
      [] v.t = "str" -> v.s # <<>>
      [] v.t = "list" -> v.l # <<>>
      [] OTHER -> v.d # <<>>

\* Python `a or b`
Or(a, b) == IF Truthy(a) THEN a ELSE b

\* isinstance(v, dict), isinstance(v, list)
IsDict(v) == v.t = "dict"
IsList(v) == v.t = "list"

\* key in dict
HasKey(v, k) == \E i \in 1..Len(v.d) : v.d[i].k = k

\* dict.get(key, default)
GetDefault(v, k, dflt) ==
    IF HasKey(v, k)
    THEN v.d[CHOOSE i \in 1..Len(v.d) : v.d[i].k = k].v
    ELSE dflt

\* dict.get(key): the default is None
Get(v, k) == GetDefault(v, k, None)

\* d[k] = x on a dict under construction: a repeated key keeps its place
\* and takes the last value
DictSet(m, k, x) ==
    IF \E i \in 1..Len(m) : m[i].k = k
    THEN [i \in 1..Len(m) |-> IF m[i].k = k THEN [k |-> k, v |-> x] ELSE m[i]]
    ELSE Append(m, [k |-> k, v |-> x])

(***************************************************************************)
(* Text helpers                                                            *)
(***************************************************************************)
Digits == <<"0", "1", "2", "3", "4", "5", "6", "7", "8", "9">>
IsDigit(c) == \E i \in 1..10 : Digits[i] = c
DigitVal(c) == (CHOOSE i \in 1..10 : Digits[i] = c) - 1
Whitespace == {" ", "\n"}

\* str(int) for n >= 0
RECURSIVE IntText(_)
IntText(k) ==
    IF k < 10 THEN <<Digits[k + 1]>>
    ELSE Append(IntText(k \div 10), Digits[(k % 10) + 1])

\* the value of a text of digits
RECURSIVE DigitsValue(_, _)
DigitsValue(x, acc) ==
    IF x = <<>> THEN acc
    ELSE DigitsValue(Tail(x), 10 * acc + DigitVal(Head(x)))

AllDigits(x) == x # <<>> /\ \A i \in 1..Len(x) : IsDigit(x[i])

\* str.strip()
RECURSIVE LStrip(_)
LStrip(x) == IF x # <<>> /\ Head(x) \in Whitespace THEN LStrip(Tail(x)) ELSE x
RECURSIVE RStrip(_)
RStrip(x) ==
    IF x # <<>> /\ x[Len(x)] \in Whitespace
    THEN RStrip(SubSeq(x, 1, Len(x) - 1))
    ELSE x
Strip(x) == RStrip(LStrip(x))

\* str.find(c) and str.rfind(c) for a single character, as 0-based indexes,
\* -1 when the character does not occur
Find(x, c) ==
    IF \E i \in 1..Len(x) : x[i] = c
    THEN (CHOOSE i \in 1..Len(x) : x[i] = c /\ \A j \in 1..(i - 1) : x[j] # c) - 1
    ELSE -1
RFind(x, c) ==
    IF \E i \in 1..Len(x) : x[i] = c
    THEN (CHOOSE i \in 1..Len(x) : x[i] = c /\ \A j \in (i + 1)..Len(x) : x[j] # c) - 1
    ELSE -1

\* content[a:b+1] for 0-based a <= b
Slice(x, a, b) == SubSeq(x, a + 1, b + 1)

RECURSIVE Concat(_)
Concat(parts) == IF parts = <<>> THEN <<>> ELSE Head(parts) \o Concat(Tail(parts))

(***************************************************************************)
(* json.dumps with the default separators                                  *)
(***************************************************************************)
RECURSIVE EscapeText(_)
EscapeText(x) ==
    IF \A i \in 1..Len(x) : x[i] \notin {"\"", "\\"} THEN x
    ELSE IF Head(x) \in {"\"", "\\"} THEN <<"\\", Head(x)>> \o EscapeText(Tail(x))
    ELSE <<Head(x)>> \o EscapeText(Tail(x))

QuoteText(x) == <<"\"">> \o EscapeText(x) \o <<"\"">>

RECURSIVE json_dumps(_)
RECURSIVE DumpElems(_)
RECURSIVE DumpMembers(_)
DumpElems(q) ==
    IF q = <<>> THEN <<>>
    ELSE IF Len(q) = 1 THEN json_dumps(q[1])
    ELSE json_dumps(q[1]) \o <<",", " ">> \o DumpElems(Tail(q))
DumpMembers(m) ==
    IF m = <<>> THEN <<>>
    ELSE IF Len(m) = 1 THEN QuoteText(m[1].k) \o <<":", " ">> \o json_dumps(m[1].v)
    ELSE QuoteText(m[1].k) \o <<":", " ">> \o json_dumps(m[1].v)
         \o <<",", " ">> \o DumpMembers(Tail(m))
json_dumps(v) ==
    CASE v.t = "null" -> <<"n", "u", "l", "l">>
      [] v.t = "bool" -> IF v.n = 1 THEN <<"t", "r", "u", "e">> ELSE <<"f", "a", "l", "s", "e">>
      [] v.t = "int" -> IntText(v.n)
      [] v.t = "str" -> QuoteText(v.s)
      [] v.t = "list" -> <<"[">> \o DumpElems(v.l) \o <<"]">>
      [] OTHER -> <<"{">> \o DumpMembers(v.d) \o <<"}">>

(***************************************************************************)
(* json.loads: a recursive-descent parse of the whole text.  A parse step  *)
(* answers [ok, pos, v]: whether a value was read, the index after it, and *)
(* the value.                                                              *)
(***************************************************************************)
ParseFail == [ok |-> FALSE, pos |-> 0, v |-> None]
ParseOk(p, x) == [ok |-> TRUE, pos |-> p, v |-> x]

RECURSIVE SkipWs(_, _)
SkipWs(x, i) == IF i <= Len(x) /\ x[i] \in Whitespace THEN SkipWs(x, i + 1) ELSE i

\* the characters after an opening quote, up to the closing quote; a run
\* with no backslash before the first quote is taken in one step
RECURSIVE ParseString(_, _, _)
ParseString(x, i, acc) ==
    IF i > Len(x) THEN ParseFail
    ELSE IF x[i] = "\"" THEN ParseOk(i + 1, PyStr(acc))
    ELSE IF \E q \in i..Len(x) : x[q] = "\"" /\ \A k \in i..(q - 1) : x[k] \notin {"\"", "\\"}
         THEN LET q == CHOOSE q \in i..Len(x) :
                          x[q] = "\"" /\ \A k \in i..(q - 1) : x[k] \notin {"\"", "\\"} IN
              ParseOk(q + 1, PyStr(acc \o SubSeq(x, i, q - 1)))
    ELSE IF x[i] = "\\"
         THEN IF i + 1 <= Len(x) /\ x[i + 1] \in {"\"", "\\"}
              THEN ParseString(x, i + 2, Append(acc, x[i + 1]))
              ELSE ParseFail
    ELSE ParseString(x, i + 1, Append(acc, x[i]))

\* the index after the digits that start at i
RECURSIVE DigitsEnd(_, _)
DigitsEnd(x, i) == IF i <= Len(x) /\ IsDigit(x[i]) THEN DigitsEnd(x, i + 1) ELSE i

\* a number: 0, or digits that do not start with 0
ParseNumber(x, i) ==
    IF x[i] = "0" THEN ParseOk(i + 1, PyInt(0))
    ELSE ParseOk(DigitsEnd(x, i), PyInt(DigitsValue(SubSeq(x, i, DigitsEnd(x, i) - 1), 0)))

RECURSIVE ParseValue(_, _)
RECURSIVE ParseElems(_, _, _)
RECURSIVE ParseMembers(_, _, _)

\* after "[" or ",": a value, then "," or "]"
ParseElems(x, i, acc) ==
    LET r == ParseValue(x, SkipWs(x, i)) IN
    IF ~r.ok THEN ParseFail
    ELSE LET j == SkipWs(x, r.pos) IN
         IF j > Len(x) THEN ParseFail
         ELSE IF x[j] = "]" THEN ParseOk(j + 1, PyList(Append(acc, r.v)))
         ELSE IF x[j] = "," /\ Len(acc) >= 0 THEN ParseElems(x, j + 1, Append(acc, r.v))
         ELSE ParseFail

\* one member: "key" : value, then "," or "}" (close)
ParseMember(x, i) ==
    LET j == SkipWs(x, i)
        bad == [ok |-> FALSE, pos |-> 0, k |-> <<>>, v |-> None, close |-> FALSE] IN
    IF j > Len(x) \/ x[j] # "\"" THEN bad
    ELSE LET key == ParseString(x, j + 1, <<>>) IN
         IF ~key.ok THEN bad
         ELSE LET c == SkipWs(x, key.pos) IN
              IF c > Len(x) \/ x[c] # ":" THEN bad
              ELSE LET r == ParseValue(x, SkipWs(x, c + 1)) IN
                   IF ~r.ok THEN bad
                   ELSE LET e == SkipWs(x, r.pos) IN
                        IF e > Len(x) \/ x[e] \notin {"}", ","} THEN bad
                        ELSE [ok |-> TRUE, pos |-> e + 1, k |-> key.v.s, v |-> r.v,
                              close |-> x[e] = "}"]

\* after a member: the dict when it was closed, else the next member
ParseMembersNext(x, acc, one) ==
    IF ~one.ok \/ Len(acc) < 0 THEN ParseFail
    ELSE IF one.close THEN ParseOk(one.pos, PyDict(DictSet(acc, one.k, one.v)))
    ELSE ParseMembers(x, one.pos, DictSet(acc, one.k, one.v))

\* after "{" or ",": the members up to "}"
ParseMembers(x, i, acc) == ParseMembersNext(x, acc, ParseMember(x, i))

ParseValue(x, i) ==
    IF i > Len(x) THEN ParseFail
    ELSE IF x[i] = "\"" THEN ParseString(x, i + 1, <<>>)
    ELSE IF IsDigit(x[i]) THEN ParseNumber(x, i)
    ELSE IF x[i] = "n"
         THEN IF i + 3 <= Len(x) /\ SubSeq(x, i, i + 3) = <<"n", "u", "l", "l">>
              THEN ParseOk(i + 4, None)
              ELSE ParseFail
    ELSE IF x[i] = "t"
         THEN IF i + 3 <= Len(x) /\ SubSeq(x, i, i + 3) = <<"t", "r", "u", "e">>
              THEN ParseOk(i + 4, PyBool(TRUE))
              ELSE ParseFail
    ELSE IF x[i] = "f"
         THEN IF i + 4 <= Len(x) /\ SubSeq(x, i, i + 4) = <<"f", "a", "l", "s", "e">>
              THEN ParseOk(i + 5, PyBool(FALSE))
              ELSE ParseFail
    ELSE IF x[i] = "["
         THEN LET j == SkipWs(x, i + 1) IN
              IF j <= Len(x) /\ x[j] = "]" THEN ParseOk(j + 1, PyList(<<>>))
              ELSE ParseElems(x, i + 1, <<>>)
    ELSE IF x[i] = "{"
         THEN LET j == SkipWs(x, i + 1) IN
              IF j <= Len(x) /\ x[j] = "}" THEN ParseOk(j + 1, PyDict(<<>>))
              ELSE ParseMembers(x, i + 1, <<>>)
    ELSE ParseFail

\* json.loads(text): [ok, v]; ok is FALSE where Python raises JSONDecodeError
json_loads(x) ==
    LET r == ParseValue(x, SkipWs(x, 1)) IN
    IF r.ok /\ SkipWs(x, r.pos) = Len(x) + 1
    THEN [ok |-> TRUE, v |-> r.v]
    ELSE [ok |-> FALSE, v |-> None]

(***************************************************************************)
(* parse_result_file: the candidates a result file yields.  `content` is   *)
(* the text of a file that exists and can be read.                         *)
(***************************************************************************)
\* the shape handling shared by the parsers: a list yields its elements,
\* a dict yields itself, anything else yields nothing.
\* A handling that takes every value that is no list for one candidate:
DataToListWraps(data) == IF IsList(data) THEN data.l ELSE <<data>>

\* isinstance(data, list) / isinstance(data, dict) / else
DataToList(data) ==
    IF IsList(data) THEN data.l
    ELSE IF IsDict(data) THEN <<data>>
    ELSE <<>>

\* a recovery that ends its span at the first "]" instead of the last one
RecoverySpanFirstClose(content) ==
    LET start_idx == Find(content, "[")
        end_idx == Find(content, "]") IN
    IF start_idx # -1 /\ end_idx # -1 /\ end_idx > start_idx
    THEN [found |-> TRUE, text |-> Slice(content, start_idx, end_idx)]
    ELSE [found |-> FALSE, text |-> <<>>]

\* the span content[start_idx:end_idx+1] of the recovery, or no span
RecoverySpan(content) ==
    LET start_idx == Find(content, "[")
        end_idx == RFind(content, "]") IN
    IF start_idx # -1 /\ end_idx # -1 /\ end_idx > start_idx
    THEN [found |-> TRUE, text |-> Slice(content, start_idx, end_idx)]
    ELSE [found |-> FALSE, text |-> <<>>]

\* the second attempt: json.loads of the span, when there is one
Recovered(span) ==
    IF span.found THEN json_loads(span.text) ELSE [ok |-> FALSE, v |-> None]

\* the data of the first json.loads, or of the recovery when it raised
FirstOrRecovered(first, content) ==
    IF first.ok THEN first ELSE Recovered(RecoverySpan(content))

\* the list returned for the data, [] when no data could be parsed
ParsedList(got) == IF got.ok THEN DataToList(got.v) ELSE <<>>

\* content.strip() of an empty file fails both attempts, which yields []
ParseContent(content) ==
    IF content = <<>> THEN <<>>
    ELSE ParsedList(FirstOrRecovered(json_loads(content), content))

\* api.py: a JSONDecodeError of the second json.loads is caught by the
\* outer handler, which returns []
parse_result_file(raw) == ParseContent(Strip(raw))

\* parse_results_to_db.py: the same steps, the second json.loads in a try
\* of its own
p2d_parse_result_file(raw) == ParseContent(Strip(raw))

(***************************************************************************)
(* The keys a candidate record is read under, as text                      *)
(***************************************************************************)
keys ==
    [id |-> <<"i", "d">>,
     created_at |-> <<"c", "r", "e", "a", "t", "e", "d", "_", "a", "t">>,
     Company_Name |-> <<"C", "o", "m", "p", "a", "n", "y", " ", "N", "a", "m", "e">>,
     company_name |-> <<"c", "o", "m", "p", "a", "n", "y", "_", "n", "a", "m", "e">>,
     name |-> <<"n", "a", "m", "e">>,
     Website_URL |-> <<"W", "e", "b", "s", "i", "t", "e", " ", "U", "R", "L">>,
     website_url |-> <<"w", "e", "b", "s", "i", "t", "e", "_", "u", "r", "l">>,
     website |-> <<"w", "e", "b", "s", "i", "t", "e">>,
     Founding_Year |-> <<"F", "o", "u", "n", "d", "i", "n", "g", " ", "Y", "e", "a", "r">>,
     founding_year |-> <<"f", "o", "u", "n", "d", "i", "n", "g", "_", "y", "e", "a", "r">>,
     founded |-> <<"f", "o", "u", "n", "d", "e", "d">>,
     Founders |-> <<"F", "o", "u", "n", "d", "e", "r", "s">>,
     founders |-> <<"f", "o", "u", "n", "d", "e", "r", "s">>,
     Business_Model |-> <<"B", "u", "s", "i", "n", "e", "s", "s", " ", "M", "o", "d", "e", "l">>,
     business_model |-> <<"b", "u", "s", "i", "n", "e", "s", "s", "_", "m", "o", "d", "e", "l">>,
     Industry_Sector |-> <<"I", "n", "d", "u", "s", "t", "r", "y", " ", "S", "e", "c", "t", "o", "r">>,
     industry_sector |-> <<"i", "n", "d", "u", "s", "t", "r", "y", "_", "s", "e", "c", "t", "o", "r">>,
     industry |-> <<"i", "n", "d", "u", "s", "t", "r", "y">>,
     Funding_Rounds |-> <<"F", "u", "n", "d", "i", "n", "g", " ", "R", "o", "u", "n", "d", "s">>,
     funding_rounds |-> <<"f", "u", "n", "d", "i", "n", "g", "_", "r", "o", "u", "n", "d", "s">>,
     Total_Capital_Raised_to_Date |-> <<"T", "o", "t", "a", "l", " ", "C", "a", "p", "i", "t", "a", "l", " ", "R", "a", "i", "s", "e", "d", " ", "t", "o", " ", "D", "a", "t", "e">>,
     total_capital_raised |-> <<"t", "o", "t", "a", "l", "_", "c", "a", "p", "i", "t", "a", "l", "_", "r", "a", "i", "s", "e", "d">>,
     total_funding |-> <<"t", "o", "t", "a", "l", "_", "f", "u", "n", "d", "i", "n", "g">>,
     Current_Revenue_Estimates |-> <<"C", "u", "r", "r", "e", "n", "t", " ", "R", "e", "v", "e", "n", "u", "e", " ", "E", "s", "t", "i", "m", "a", "t", "e", "s">>,
     current_revenue_estimates |-> <<"c", "u", "r", "r", "e", "n", "t", "_", "r", "e", "v", "e", "n", "u", "e", "_", "e", "s", "t", "i", "m", "a", "t", "e", "s">>,
     revenue |-> <<"r", "e", "v", "e", "n", "u", "e">>,
     Employee_Count |-> <<"E", "m", "p", "l", "o", "y", "e", "e", " ", "C", "o", "u", "n", "t">>,
     employee_count |-> <<"e", "m", "p", "l", "o", "y", "e", "e", "_", "c", "o", "u", "n", "t">>,
     employees |-> <<"e", "m", "p", "l", "o", "y", "e", "e", "s">>,
     Customer_User_Base_Size |-> <<"C", "u", "s", "t", "o", "m", "e", "r", "/", "U", "s", "e", "r", " ", "B", "a", "s", "e", " ", "S", "i", "z", "e">>,
     customer_user_base_size |-> <<"c", "u", "s", "t", "o", "m", "e", "r", "_", "u", "s", "e", "r", "_", "b", "a", "s", "e", "_", "s", "i", "z", "e">>,
     users |-> <<"u", "s", "e", "r", "s">>,
     Key_Partnerships |-> <<"K", "e", "y", " ", "P", "a", "r", "t", "n", "e", "r", "s", "h", "i", "p", "s">>,
     key_partnerships |-> <<"k", "e", "y", "_", "p", "a", "r", "t", "n", "e", "r", "s", "h", "i", "p", "s">>,
     Major_Competitors |-> <<"M", "a", "j", "o", "r", " ", "C", "o", "m", "p", "e", "t", "i", "t", "o", "r", "s">>,
     major_competitors |-> <<"m", "a", "j", "o", "r", "_", "c", "o", "m", "p", "e", "t", "i", "t", "o", "r", "s">>,
     Recent_News_or_Developments |-> <<"R", "e", "c", "e", "n", "t", " ", "N", "e", "w", "s", " ", "o", "r", " ", "D", "e", "v", "e", "l", "o", "p", "m", "e", "n", "t", "s">>,
     recent_news_developments |-> <<"r", "e", "c", "e", "n", "t", "_", "n", "e", "w", "s", "_", "d", "e", "v", "e", "l", "o", "p", "m", "e", "n", "t", "s">>,
     recent_news |-> <<"r", "e", "c", "e", "n", "t", "_", "n", "e", "w", "s">>]

(***************************************************************************)
(* save_startup_to_db: the 14 values it binds to the INSERT                *)
(***************************************************************************)
\* api.py and parse_results_to_db.py, one definition per value: label,
\* canonical key and short alias joined by `or` for the scalar fields; the
\* label with the canonical key as its default, serialised, for the four
\* sequence fields
param_company_name(startup_data) ==
    Or(Get(startup_data, keys.Company_Name),
       Or(Get(startup_data, keys.company_name),
          GetDefault(startup_data, keys.name, PyStr(<<>>))))

\* a resolution of website_url that defaults to None
param_website_url_none(startup_data) ==
    Or(Get(startup_data, keys.Website_URL),
       Or(Get(startup_data, keys.website_url),
          GetDefault(startup_data, keys.website, None)))

param_website_url(startup_data) ==
    Or(Get(startup_data, keys.Website_URL),
       Or(Get(startup_data, keys.website_url),
          GetDefault(startup_data, keys.website, PyStr(<<>>))))

param_founding_year(startup_data) ==
    Or(Get(startup_data, keys.Founding_Year),
       Or(Get(startup_data, keys.founding_year),
          GetDefault(startup_data, keys.founded, None)))

param_founders(startup_data) ==
    PyStr(json_dumps(GetDefault(startup_data, keys.Founders,
                        GetDefault(startup_data, keys.founders, PyList(<<>>)))))

param_business_model(startup_data) ==
    Or(Get(startup_data, keys.Business_Model),
       GetDefault(startup_data, keys.business_model, PyStr(<<>>)))

param_industry_sector(startup_data) ==
    Or(Get(startup_data, keys.Industry_Sector),
       Or(Get(startup_data, keys.industry_sector),
          GetDefault(startup_data, keys.industry, PyStr(<<>>))))

param_funding_rounds(startup_data) ==
    PyStr(json_dumps(GetDefault(startup_data, keys.Funding_Rounds,
                        GetDefault(startup_data, keys.funding_rounds, PyList(<<>>)))))

param_total_capital_raised(startup_data) ==
    Or(Get(startup_data, keys.Total_Capital_Raised_to_Date),
       Or(Get(startup_data, keys.total_capital_raised),
          GetDefault(startup_data, keys.total_funding, PyStr(<<>>))))

param_current_revenue_estimates(startup_data) ==
    Or(Get(startup_data, keys.Current_Revenue_Estimates),
       Or(Get(startup_data, keys.current_revenue_estimates),
          GetDefault(startup_data, keys.revenue, PyStr(<<>>))))

param_employee_count(startup_data) ==
    Or(Get(startup_data, keys.Employee_Count),
       Or(Get(startup_data, keys.employee_count),
          GetDefault(startup_data, keys.employees, None)))

param_customer_user_base_size(startup_data) ==
    Or(Get(startup_data, keys.Customer_User_Base_Size),
       Or(Get(startup_data, keys.customer_user_base_size),
          GetDefault(startup_data, keys.users, PyStr(<<>>))))

param_key_partnerships(startup_data) ==
    PyStr(json_dumps(GetDefault(startup_data, keys.Key_Partnerships,
                        GetDefault(startup_data, keys.key_partnerships, PyList(<<>>)))))

param_major_competitors(startup_data) ==
    PyStr(json_dumps(GetDefault(startup_data, keys.Major_Competitors,
                        GetDefault(startup_data, keys.major_competitors, PyList(<<>>)))))

param_recent_news_developments(startup_data) ==
    Or(Get(startup_data, keys.Recent_News_or_Developments),
       Or(Get(startup_data, keys.recent_news_developments),
          GetDefault(startup_data, keys.recent_news, PyStr(<<>>))))

InsertParams(startup_data) ==
    [company_name |-> param_company_name(startup_data),
     website_url |-> param_website_url(startup_data),
     founding_year |-> param_founding_year(startup_data),
     founders |-> param_founders(startup_data),
     business_model |-> param_business_model(startup_data),
     industry_sector |-> param_industry_sector(startup_data),
     funding_rounds |-> param_funding_rounds(startup_data),
     total_capital_raised |-> param_total_capital_raised(startup_data),
     current_revenue_estimates |-> param_current_revenue_estimates(startup_data),
     employee_count |-> param_employee_count(startup_data),
     customer_user_base_size |-> param_customer_user_base_size(startup_data),
     key_partnerships |-> param_key_partnerships(startup_data),
     major_competitors |-> param_major_competitors(startup_data),
     recent_news_developments |-> param_recent_news_developments(startup_data)]

\* research_startups.py: the labels only, each with its default
RsInsertParams(startup_data) ==
    [company_name |-> GetDefault(startup_data, keys.Company_Name, PyStr(<<>>)),
     website_url |-> GetDefault(startup_data, keys.Website_URL, PyStr(<<>>)),
     founding_year |-> GetDefault(startup_data, keys.Founding_Year, None),
     founders |-> PyStr(json_dumps(GetDefault(startup_data, keys.Founders, PyList(<<>>)))),
     business_model |-> GetDefault(startup_data, keys.Business_Model, PyStr(<<>>)),
     industry_sector |-> GetDefault(startup_data, keys.Industry_Sector, PyStr(<<>>)),
     funding_rounds |->
        PyStr(json_dumps(GetDefault(startup_data, keys.Funding_Rounds, PyList(<<>>)))),
     total_capital_raised |->
        GetDefault(startup_data, keys.Total_Capital_Raised_to_Date, PyStr(<<>>)),
     current_revenue_estimates |->
        GetDefault(startup_data, keys.Current_Revenue_Estimates, PyStr(<<>>)),
     employee_count |-> GetDefault(startup_data, keys.Employee_Count, None),
     customer_user_base_size |->
        GetDefault(startup_data, keys.Customer_User_Base_Size, PyStr(<<>>)),
     key_partnerships |->
        PyStr(json_dumps(GetDefault(startup_data, keys.Key_Partnerships, PyList(<<>>)))),
     major_competitors |->
        PyStr(json_dumps(GetDefault(startup_data, keys.Major_Competitors, PyList(<<>>)))),
     recent_news_developments |->
        GetDefault(startup_data, keys.Recent_News_or_Developments, PyStr(<<>>))]

(***************************************************************************)
(* The table `startups` (CREATE TABLE of create_startup_database) and the  *)
(* INSERT: sqlite3 binds None, int and str only; a TEXT column stores an   *)
(* integer as its decimal text, an INTEGER column stores a text of digits  *)
(* as the integer; company_name is NOT NULL.                               *)
(***************************************************************************)
TextColumns ==
    {"company_name", "website_url", "founders", "business_model", "industry_sector",
     "funding_rounds", "total_capital_raised", "current_revenue_estimates",
     "customer_user_base_size", "key_partnerships", "major_competitors",
     "recent_news_developments"}
IntegerColumns == {"founding_year", "employee_count"}
Columns == TextColumns \cup IntegerColumns

Bindable(v) == v.t \in {"null", "int", "bool", "str"}

TextAffinity(v) == IF v.t \in {"int", "bool"} THEN PyStr(IntText(v.n)) ELSE v

IntegerAffinity(v) ==
    IF v.t = "str" /\ AllDigits(v.s) THEN PyInt(DigitsValue(v.s, 0))
    ELSE IF v.t = "bool" THEN PyInt(v.n)
    ELSE v

\* whether cursor.execute(INSERT ...) succeeds for these parameters
InsertSucceeds(params) ==
    /\ \A c \in Columns : Bindable(params[c])
    /\ params.company_name.t # "null"

\* the stored row: the parameters under their columns' affinity, with the
\* id of AUTOINCREMENT and the created_at of DEFAULT CURRENT_TIMESTAMP
StoredRow(params, id, now) ==
    [c \in Columns \cup {"id", "created_at"} |->
        IF c = "id" THEN PyInt(id)
        ELSE IF c = "created_at" THEN PyInt(now)
        ELSE IF c \in TextColumns THEN TextAffinity(params[c])
        ELSE IntegerAffinity(params[c])]

(***************************************************************************)
(* The working directory.  A directory is a listing: a sequence of files   *)
(* [name, text] with distinct names, in the order the file system lists    *)
(* them.                                                                   *)
(***************************************************************************)
name_all == <<"a", "l", "l">>
name_research_results_json == <<"r", "e", "s", "e", "a", "r", "c", "h", "_", "r", "e", "s", "u", "l", "t", "s", ".", "j", "s", "o", "n">>
prefix_research_results_backup == <<"r", "e", "s", "e", "a", "r", "c", "h", "_", "r", "e", "s", "u", "l", "t", "s", "_", "b", "a", "c", "k", "u", "p", "_">>
prefix_batch_results == <<"b", "a", "t", "c", "h", "_", "r", "e", "s", "u", "l", "t", "s", "_">>
suffix_json == <<".", "j", "s", "o", "n">>

\* file_patterns: each pattern is the text before its `*` and the text
\* after it; a pattern with no `*` matches its own text only
file_patterns ==
    <<[star |-> FALSE, pre |-> name_research_results_json, suf |-> <<>>],
      [star |-> TRUE, pre |-> prefix_research_results_backup, suf |-> suffix_json],
      [star |-> TRUE, pre |-> prefix_batch_results, suf |-> suffix_json]>>

\* fnmatch of a file name against one pattern
GlobMatch(pattern, name) ==
    IF ~pattern.star THEN name = pattern.pre
    ELSE /\ Len(name) >= Len(pattern.pre) + Len(pattern.suf)
         /\ SubSeq(name, 1, Len(pattern.pre)) = pattern.pre
         /\ SubSeq(name, Len(name) - Len(pattern.suf) + 1, Len(name)) = pattern.suf

\* os.path.exists(name)
PathExists(dir, name) == \E i \in 1..Len(dir) : dir[i].name = name

\* the text of an existing file
FileText(dir, name) == dir[CHOOSE i \in 1..Len(dir) : dir[i].name = name].text

\* glob.glob(pattern): the matching files, in listing order
Glob(dir, pattern) == SelectSeq(dir, LAMBDA f : GlobMatch(pattern, f.name))

\* all_files: the matches of the three patterns, one pattern after another
AllFiles(dir) ==
    Glob(dir, file_patterns[1]) \o Glob(dir, file_patterns[2]) \o Glob(dir, file_patterns[3])

(***************************************************************************)
(* State                                                                   *)
(***************************************************************************)
VARIABLES
    table_exists,     \* whether startup_research.db holds the table `startups`
    rows,             \* the rows of `startups`, in rowid order
    sqlite_sequence,  \* the largest id AUTOINCREMENT has given out
    now,              \* CURRENT_TIMESTAMP, in seconds
    app_started,      \* whether the FastAPI startup_event has run
    src,              \* history: per row, the candidate it was made from and
                      \* the entry point that inserted it
    inp,              \* history: the input of the operation under test; the
                      \* operations leave it to the specification, which,
                      \* where it takes an operation step by step, keeps
                      \* the position of each run in it
    res               \* the answer of the last operation

vars == <<table_exists, rows, sqlite_sequence, now, app_started, src, inp, res>>

store == <<table_exists, rows, sqlite_sequence, src>>

NoRes ==
    [op |-> "none", status |-> 0, detail |-> "", found |-> 0, saved |-> 0,
     files |-> <<>>, body |-> <<>>, pre |-> 0]

\* one pass of an ingestion loop: the table and the count so far
Pass(t, q, h, n) == [rows |-> t, seq |-> q, src |-> h, saved |-> n]

\* an INSERT whose failure is counted as a save
InsertCountsFailure(st, params, cand, via, counted) ==
    IF InsertSucceeds(params)
    THEN Pass(Append(st.rows, StoredRow(params, st.seq + 1, now)),
              st.seq + 1,
              Append(st.src, [cand |-> cand, via |-> via]),
              st.saved + 1)
    ELSE Pass(st.rows, st.seq, st.src, st.saved + 1)

\* an INSERT that does not advance the AUTOINCREMENT counter
InsertKeepsCounter(st, params, cand, via, counted) ==
    IF InsertSucceeds(params)
    THEN Pass(Append(st.rows, StoredRow(params, st.seq + 1, now)),
              st.seq,
              Append(st.src, [cand |-> cand, via |-> via]),
              st.saved + 1)
    ELSE Pass(st.rows, st.seq, st.src, IF counted THEN st.saved + 1 ELSE st.saved)

\* an INSERT that takes the place of the newest row when there is one
InsertReplacesNewest(st, params, cand, via, counted) ==
    IF InsertSucceeds(params)
    THEN Pass(IF st.rows = <<>> THEN <<StoredRow(params, st.seq + 1, now)>>
              ELSE [st.rows EXCEPT ![Len(st.rows)] = StoredRow(params, st.seq + 1, now)],
              st.seq + 1,
              IF st.src = <<>> THEN <<[cand |-> cand, via |-> via]>>
              ELSE [st.src EXCEPT ![Len(st.src)] = [cand |-> cand, via |-> via]],
              st.saved + 1)
    ELSE Pass(st.rows, st.seq, st.src, IF counted THEN st.saved + 1 ELSE st.saved)

\* INSERT of the parameters, commit; or rollback, which leaves the table as
\* it was
Insert(st, params, cand, via, counted) ==
    IF InsertSucceeds(params)
    THEN Pass(Append(st.rows, StoredRow(params, st.seq + 1, now)),
              st.seq + 1,
              Append(st.src, [cand |-> cand, via |-> via]),
              st.saved + 1)
    ELSE Pass(st.rows, st.seq, st.src, IF counted THEN st.saved + 1 ELSE st.saved)

\* a test that lets every candidate pass
LoopCompanyNameAny(startup) == PyStr(<<"x">>)

\* the company name the ingestion loops test before they save
LoopCompanyName(startup) ==
    Or(Get(startup, keys.Company_Name),
       Or(Get(startup, keys.company_name),
          GetDefault(startup, keys.name, PyStr(<<>>))))

\* a loop that a failed INSERT ends
RECURSIVE ApiSaveLoopAborts(_, _)
ApiSaveLoopAborts(st, startups) ==
    IF startups = <<>> THEN st
    ELSE LET startup == Head(startups) IN
         IF IsDict(startup) /\ Truthy(LoopCompanyName(startup))
         THEN IF InsertSucceeds(InsertParams(startup))
              THEN ApiSaveLoopAborts(Insert(st, InsertParams(startup), startup, "api", FALSE),
                                     Tail(startups))
              ELSE st
         ELSE ApiSaveLoopAborts(st, Tail(startups))

\* api.py save_from_file: the loop over the candidates of one file
RECURSIVE ApiSaveLoop(_, _)
ApiSaveLoop(st, startups) ==
    IF startups = <<>> THEN st
    ELSE LET startup == Head(startups) IN
         IF IsDict(startup) /\ Truthy(LoopCompanyName(startup))
         THEN ApiSaveLoop(Insert(st, InsertParams(startup), startup, "api", FALSE),
                          Tail(startups))
         ELSE ApiSaveLoop(st, Tail(startups))

\* parse_results_to_db.py save_startups_to_db: the loop
RECURSIVE P2dSaveLoop(_, _)
P2dSaveLoop(st, startups_list) ==
    IF startups_list = <<>> THEN st
    ELSE LET startup == Head(startups_list) IN
         IF IsDict(startup) /\ Truthy(LoopCompanyName(startup))
         THEN P2dSaveLoop(Insert(st, InsertParams(startup), startup, "p2d", FALSE),
                          Tail(startups_list))
         ELSE P2dSaveLoop(st, Tail(startups_list))

\* research_startups.py save_all_startups_to_db: every dict is saved and
\* counted, whether or not its INSERT succeeded
RECURSIVE RsSaveLoop(_, _)
RsSaveLoop(st, startups_list) ==
    IF startups_list = <<>> THEN st
    ELSE LET startup == Head(startups_list) IN
         IF IsDict(startup)
         THEN RsSaveLoop(Insert(st, RsInsertParams(startup), startup, "rs", TRUE),
                         Tail(startups_list))
         ELSE RsSaveLoop(st, Tail(startups_list))

(***************************************************************************)
(* A file of the directory is [name, doc]; doc = [lead, body, trail] is    *)
(* how its text is made up: text around the serialisation of one JSON      *)
(* value.  The program reads the text only.                                *)
(***************************************************************************)
DocText(doc) == doc.lead \o json_dumps(doc.body) \o doc.trail

File(name, doc) == [name |-> name, doc |-> doc, text |-> DocText(doc)]

Respond(op, status, detail, found, saved, files, body) ==
    [op |-> op, status |-> status, detail |-> detail, found |-> found,
     saved |-> saved, files |-> files, body |-> body, pre |-> Len(rows)]

Start == Pass(rows, sqlite_sequence, src, 0)

Commit(st) ==
    /\ rows' = st.rows
    /\ sqlite_sequence' = st.seq
    /\ src' = st.src

(***************************************************************************)
(* api.py                                                                  *)
(***************************************************************************)
\* startup_event: create_startup_database() when the application starts
startup_event ==
    /\ ~app_started
    /\ app_started' = TRUE
    /\ table_exists' = TRUE
    /\ res' = Respond("startup_event", 0, "", 0, 0, <<>>, <<>>)
    /\ UNCHANGED <<rows, sqlite_sequence, now, src>>

\* a schema step that drops the table before it creates it
create_startup_database_anew ==
    /\ table_exists' = TRUE
    /\ rows' = <<>>
    /\ sqlite_sequence' = 0
    /\ src' = <<>>
    /\ res' = Respond("create_startup_database", 0, "", 0, 0, <<>>, <<>>)
    /\ UNCHANGED <<now, app_started>>

\* create_startup_database(): CREATE TABLE IF NOT EXISTS startups, commit
create_startup_database ==
    /\ table_exists' = TRUE
    /\ res' = Respond("create_startup_database", 0, "", 0, 0, <<>>, <<>>)
    /\ UNCHANGED <<rows, sqlite_sequence, now, app_started, src>>

\* the loop over all_files: [st, processed_files]
RECURSIVE ApiAllLoop(_, _, _)
\* after one file: total_saved += saved_count, processed_files.append(...)
ApiAllNext(st, all_files, processed_files, one) ==
    ApiAllLoop(Pass(one.rows, one.seq, one.src, st.saved + one.saved),
               Tail(all_files),
               Append(processed_files,
                      [filename |-> Head(all_files).name, startups_saved |-> one.saved]))

ApiAllLoop(st, all_files, processed_files) ==
    IF all_files = <<>> THEN [st |-> st, processed_files |-> processed_files]
    ELSE ApiAllNext(st, all_files, processed_files,
                    ApiSaveLoop(Pass(st.rows, st.seq, st.src, 0),
                                parse_result_file(Head(all_files).text)))

\* POST /save-from-file?filename=...
save_from_file(filename, dir) ==
    /\ app_started
    /\ IF ~PathExists(dir, filename)
       THEN IF filename = name_all
            THEN IF AllFiles(dir) = <<>>
                 THEN /\ res' = Respond("save_from_file", 404, "No result files found",
                                        0, 0, <<>>, <<>>)
                      /\ UNCHANGED <<rows, sqlite_sequence, src>>
                 ELSE \E done \in {ApiAllLoop(Start, AllFiles(dir), <<>>)} :
                      /\ Commit(done.st)
                      /\ res' = Respond("save_from_file", 200, "all", 0, done.st.saved,
                                        done.processed_files, <<>>)
            ELSE /\ res' = Respond("save_from_file", 404, "File not found",
                                   0, 0, <<>>, <<>>)
                 /\ UNCHANGED <<rows, sqlite_sequence, src>>
       ELSE \E startups \in {parse_result_file(FileText(dir, filename))} :
            IF startups = <<>>
            THEN /\ res' = Respond("save_from_file", 400, "No valid startup data found",
                                   0, 0, <<>>, <<>>)
                 /\ UNCHANGED <<rows, sqlite_sequence, src>>
            ELSE \E done \in {ApiSaveLoop(Start, startups)} :
                 /\ Commit(done)
                 /\ res' = Respond("save_from_file", 200, "single", Len(startups),
                                   done.saved, <<>>, <<>>)
    /\ UNCHANGED <<table_exists, now, app_started>>

(***************************************************************************)
(* parse_results_to_db.py                                                  *)
(***************************************************************************)
\* save_startups_to_db over each file of all_files: [st, created]
RECURSIVE P2dAllLoop(_, _, _)
\* after one file: total_saved += saved
P2dAllNext(st, all_files, created, startups, one) ==
    P2dAllLoop(Pass(one.rows, one.seq, one.src, st.saved + one.saved),
               Tail(all_files),
               created \/ startups # <<>>)

P2dAllFile(st, all_files, created, startups) ==
    P2dAllNext(st, all_files, created, startups,
               P2dSaveLoop(Pass(st.rows, st.seq, st.src, 0), startups))

P2dAllLoop(st, all_files, created) ==
    IF all_files = <<>> THEN [st |-> st, created |-> created]
    ELSE P2dAllFile(st, all_files, created, p2d_parse_result_file(Head(all_files).text))

\* main() with sys.argv[1] = filename; save_startups_to_db creates the table
\* before a list that is not empty.  A file that does not exist parses to [].
p2d_main(filename, dir) ==
    /\ IF filename = name_all
       THEN IF AllFiles(dir) = <<>>
            THEN /\ res' = Respond("p2d_main", 0, "No result files found",
                                   0, 0, <<>>, <<>>)
                 /\ UNCHANGED <<table_exists, rows, sqlite_sequence, src>>
            ELSE \E done \in {P2dAllLoop(Start, AllFiles(dir), FALSE)} :
                 /\ Commit(done.st)
                 /\ table_exists' = (table_exists \/ done.created)
                 /\ res' = Respond("p2d_main", 0, "all", 0, done.st.saved,
                                   <<>>, <<>>)
       ELSE \E startups \in {IF PathExists(dir, filename)
                             THEN p2d_parse_result_file(FileText(dir, filename))
                             ELSE <<>>} :
            \E done \in {P2dSaveLoop(Start, startups)} :
            /\ Commit(done)
            /\ table_exists' = (table_exists \/ startups # <<>>)
            /\ res' = Respond("p2d_main", 0, "single", Len(startups), done.saved,
                              <<>>, <<>>)
    /\ UNCHANGED <<now, app_started>>

(***************************************************************************)
(* research_startups.py                                                    *)
(***************************************************************************)
\* the items of a parsed list that parse_and_save_result_file keeps
ValidItems(data) ==
    SelectSeq(data, LAMBDA item :
        IsDict(item) /\ (HasKey(item, keys.Company_Name) \/ HasKey(item, keys.company_name)))

\* the parsed data of a file, as parse_and_save_result_file reads it:
\* [ok, data]; ok is FALSE where the function returns False before the data
\* is looked at
RsParseContent(content) ==
    IF content = <<>> THEN [ok |-> FALSE, v |-> None]
    ELSE FirstOrRecovered(json_loads(content), content)

RsParse(raw) == RsParseContent(Strip(raw))

\* parse_and_save_result_file(filename): the list it hands to
\* save_all_startups_to_db, or nothing (the function returns False)
RsValid(got) ==
    IF ~got.ok THEN <<>>
    ELSE IF IsList(got.v) THEN ValidItems(got.v.l)
    ELSE IF IsDict(got.v)
         THEN IF HasKey(got.v, keys.Company_Name) \/ HasKey(got.v, keys.company_name)
              THEN <<got.v>>
              ELSE <<>>
    ELSE <<>>

RsToSave(dir, filename) ==
    IF ~PathExists(dir, filename) THEN <<>>
    ELSE RsValid(RsParse(FileText(dir, filename)))

\* parse_and_save_result_file; save_all_startups_to_db creates the table
parse_and_save_result_file(filename, dir) ==
    \E valid_items \in {RsToSave(dir, filename)} :
    \E done \in {RsSaveLoop(Start, valid_items)} :
    /\ Commit(done)
    /\ table_exists' = (table_exists \/ valid_items # <<>>)
    /\ res' = Respond("parse_and_save_result_file", 0,
                      IF valid_items # <<>> THEN "True" ELSE "False",
                      Len(valid_items), done.saved, <<>>, <<>>)
    /\ UNCHANGED <<now, app_started>>

(***************************************************************************)
(* The clock                                                               *)
(***************************************************************************)
MaxNow == 1

Tick ==
    /\ now < MaxNow
    /\ now' = now + 1
    /\ UNCHANGED <<table_exists, rows, sqlite_sequence, app_started, src, res>>

(***************************************************************************)
(* Reading the table                                                       *)
(***************************************************************************)
\* a read that hands out the stored text undecoded
LoadColumnRaw(col) == [ok |-> TRUE, v |-> IF Truthy(col) THEN col ELSE PyList(<<>>)]

\* json.loads(row[i]) if row[i] else []
LoadColumn(col) == IF Truthy(col) THEN json_loads(col.s) ELSE [ok |-> TRUE, v |-> PyList(<<>>)]

SequenceColumns == {"founders", "funding_rounds", "key_partnerships", "major_competitors"}

\* whether the dict of a row can be built: the four json.loads succeed
RowLoads(row) == \A c \in SequenceColumns : LoadColumn(row[c]).ok

\* the dict get_all_startups_from_db and get_startup_by_id build from a row
RowToStartup(row) ==
    [c \in DOMAIN row |-> IF c \in SequenceColumns THEN LoadColumn(row[c]).v ELSE row[c]]

\* ORDER BY created_at DESC: every order of the rows in which no row comes
\* before a row with a later created_at; SQLite leaves the order of rows
\* with equal created_at open
Orderings(n) == {p \in [1..n -> 1..n] : \A i, j \in 1..n : i # j => p[i] # p[j]}

CreatedAtDesc(t) ==
    {[i \in 1..Len(t) |-> t[p[i]]] : p \in
        {q \in Orderings(Len(t)) :
            \A i, j \in 1..Len(t) : i < j => t[q[i]].created_at.n >= t[q[j]].created_at.n}}

\* get_all_startups_from_db(): the lists it can return; [] when the query
\* or a json.loads raises
get_all_startups_from_db ==
    IF ~table_exists \/ \E i \in 1..Len(rows) : ~RowLoads(rows[i])
    THEN {<<>>}
    ELSE {[i \in 1..Len(t) |-> RowToStartup(t[i])] : t \in CreatedAtDesc(rows)}

\* str.lower()
UpperCase == <<"A", "B", "C", "D", "E", "F", "G", "H", "I", "J", "K", "L", "M",
               "N", "O", "P", "Q", "R", "S", "T", "U", "V", "W", "X", "Y", "Z">>
LowerCase == <<"a", "b", "c", "d", "e", "f", "g", "h", "i", "j", "k", "l", "m",
               "n", "o", "p", "q", "r", "s", "t", "u", "v", "w", "x", "y", "z">>
LowerChar(c) ==
    IF \E i \in 1..26 : UpperCase[i] = c
    THEN LowerCase[CHOOSE i \in 1..26 : UpperCase[i] = c]
    ELSE c
Lower(x) == [i \in 1..Len(x) |-> LowerChar(x[i])]

\* x.find(sub) != -1
Contains(x, sub) ==
    \E i \in 1..(Len(x) - Len(sub) + 1) : SubSeq(x, i, i + Len(sub) - 1) = sub

\* startups[:limit]
SliceTo(q, limit) ==
    IF limit >= 0
    THEN SubSeq(q, 1, IF limit < Len(q) THEN limit ELSE Len(q))
    ELSE SubSeq(q, 1, IF Len(q) + limit > 0 THEN Len(q) + limit ELSE 0)

\* GET /startups: industry and founding_year are None or a value
get_startups(limit, industry, founding_year) ==
    /\ app_started
    /\ \E startups \in get_all_startups_from_db :
          IF Truthy(industry) /\ \E i \in 1..Len(startups) : startups[i].industry_sector.t # "str"
          THEN \* None.lower() raises; the handler answers 500
               res' = Respond("get_startups", 500, "Error retrieving startups", 0, 0, <<>>, <<>>)
          ELSE LET by_industry ==
                       IF Truthy(industry)
                       THEN SelectSeq(startups, LAMBDA st :
                                Contains(Lower(st.industry_sector.s), Lower(industry.s)))
                       ELSE startups
                   by_year ==
                       IF Truthy(founding_year)
                       THEN SelectSeq(by_industry, LAMBDA st : st.founding_year = founding_year)
                       ELSE by_industry
                   limited == SliceTo(by_year, limit) IN
               res' = Respond("get_startups", 200, "", Len(limited), 0, <<>>, limited)
    /\ UNCHANGED <<table_exists, rows, sqlite_sequence, now, app_started, src>>

\* a lookup that answers with the oldest row whatever the id
get_startup_by_id_first(startup_id) ==
    /\ app_started
    /\ IF rows = <<>>
       THEN res' = Respond("get_startup_by_id", 404, "not found", 0, 0, <<>>, <<>>)
       ELSE res' = Respond("get_startup_by_id", 200, "", 1, 0, <<>>, <<RowToStartup(rows[1])>>)
    /\ UNCHANGED <<table_exists, rows, sqlite_sequence, now, app_started, src>>

\* GET /startups/{startup_id}
get_startup_by_id(startup_id) ==
    /\ app_started
    /\ IF ~table_exists
       THEN res' = Respond("get_startup_by_id", 500, "Error retrieving startup", 0, 0, <<>>, <<>>)
       ELSE IF ~\E i \in 1..Len(rows) : rows[i].id.n = startup_id
       THEN res' = Respond("get_startup_by_id", 404, "not found", 0, 0, <<>>, <<>>)
       ELSE LET row == rows[CHOOSE i \in 1..Len(rows) : rows[i].id.n = startup_id] IN
            IF RowLoads(row)
            THEN res' = Respond("get_startup_by_id", 200, "", 1, 0, <<>>, <<RowToStartup(row)>>)
            ELSE res' = Respond("get_startup_by_id", 500, "Error retrieving startup",
                                0, 0, <<>>, <<>>)
    /\ UNCHANGED <<table_exists, rows, sqlite_sequence, now, app_started, src>>

\* the value AVG gives a founding_year: a text that is no number counts 0
AvgTerm(v) == IF v.t = "int" THEN v.n ELSE 0

RECURSIVE SumYears(_)
SumYears(q) == IF q = <<>> THEN 0 ELSE AvgTerm(Head(q).founding_year) + SumYears(Tail(q))

\* an average that is 0 over no row
AvgFoundingYearZero(t) ==
    LET with_year == SelectSeq(t, LAMBDA r : r.founding_year.t # "null") IN
    IF with_year = <<>> THEN PyInt(0)
    ELSE PyFloat(SumYears(with_year), Len(with_year))

\* SELECT AVG(founding_year) ... WHERE founding_year IS NOT NULL: None over
\* no row, else the quotient of the sum and the count
AvgFoundingYear(t) ==
    LET with_year == SelectSeq(t, LAMBDA r : r.founding_year.t # "null") IN
    IF with_year = <<>> THEN None
    ELSE PyFloat(SumYears(with_year), Len(with_year))

\* SELECT DISTINCT industry_sector ... WHERE IS NOT NULL AND != ""
DistinctIndustries(t) ==
    {t[i].industry_sector : i \in {j \in 1..Len(t) :
        t[j].industry_sector.t # "null" /\ t[j].industry_sector # PyStr(<<>>)}}

txt_Not_disclosed == <<"N", "o", "t", " ", "d", "i", "s", "c", "l", "o", "s", "e", "d">>

\* a count that takes "Not disclosed" for a disclosed amount
FundingDisclosedAnyText(t) ==
    Cardinality({i \in 1..Len(t) :
        /\ t[i].total_capital_raised.t # "null"
        /\ t[i].total_capital_raised # PyStr(<<>>)})

\* SELECT COUNT(*) ... WHERE total_capital_raised IS NOT NULL AND != "" AND
\* != "Not disclosed"
FundingDisclosed(t) ==
    Cardinality({i \in 1..Len(t) :
        /\ t[i].total_capital_raised.t # "null"
        /\ t[i].total_capital_raised # PyStr(<<>>)
        /\ t[i].total_capital_raised # PyStr(txt_Not_disclosed)})

\* every listing of a finite set
Listings(S) == {q \in [1..Cardinality(S) -> S] : \A x \in S : \E i \in DOMAIN q : q[i] = x}

\* get_database_stats(): the dicts it can return (DISTINCT fixes no order);
\* the defaults when a query raises
get_database_stats ==
    IF ~table_exists
    THEN {[total_startups |-> 0, industries |-> <<>>, avg_founding_year |-> None,
           total_funding_disclosed |-> 0]}
    ELSE {[total_startups |-> Len(rows), industries |-> ind,
           avg_founding_year |-> AvgFoundingYear(rows),
           total_funding_disclosed |-> FundingDisclosed(rows)] :
             ind \in Listings(DistinctIndustries(rows))}

\* GET /stats
get_stats ==
    /\ app_started
    /\ \E stats \in get_database_stats :
          res' = Respond("get_stats", 200, "", 0, 0, <<>>, stats)
    /\ UNCHANGED <<table_exists, rows, sqlite_sequence, now, app_started, src>>

(***************************************************************************)
(* query_startup_db.py                                                     *)
(***************************************************************************)
\* the columns of the SELECT after id, with the key each is given
export_keys ==
    <<[c |-> "company_name", k |-> keys.Company_Name],
      [c |-> "website_url", k |-> keys.Website_URL],
      [c |-> "founding_year", k |-> keys.Founding_Year],
      [c |-> "founders", k |-> keys.Founders],
      [c |-> "business_model", k |-> keys.Business_Model],
      [c |-> "industry_sector", k |-> keys.Industry_Sector],
      [c |-> "funding_rounds", k |-> keys.Funding_Rounds],
      [c |-> "total_capital_raised", k |-> keys.Total_Capital_Raised_to_Date],
      [c |-> "current_revenue_estimates", k |-> keys.Current_Revenue_Estimates],
      [c |-> "employee_count", k |-> keys.Employee_Count],
      [c |-> "customer_user_base_size", k |-> keys.Customer_User_Base_Size],
      [c |-> "key_partnerships", k |-> keys.Key_Partnerships],
      [c |-> "major_competitors", k |-> keys.Major_Competitors],
      [c |-> "recent_news_developments", k |-> keys.Recent_News_or_Developments]>>

\* the dict get_all_startups builds from a row
RowToLabelled(row) ==
    PyDict(<<[k |-> keys.id, v |-> row.id]>>
           \o [i \in 1..Len(export_keys) |->
                 [k |-> export_keys[i].k,
                  v |-> IF export_keys[i].c \in SequenceColumns
                        THEN LoadColumn(row[export_keys[i].c]).v
                        ELSE row[export_keys[i].c]]]
           \o <<[k |-> keys.created_at, v |-> row.created_at]>>)

\* get_all_startups(): the lists it can return; [] when the query raises
\* sqlite3.Error.  A json.loads that raises is not caught (ok = FALSE).
get_all_startups ==
    IF ~table_exists THEN {[ok |-> TRUE, startups |-> <<>>]}
    ELSE IF \E i \in 1..Len(rows) : ~RowLoads(rows[i]) THEN {[ok |-> FALSE, startups |-> <<>>]}
    ELSE {[ok |-> TRUE, startups |-> [i \in 1..Len(t) |-> RowToLabelled(t[i])]] :
            t \in CreatedAtDesc(rows)}

\* {k: v for k, v in startup.items() if k not in ['id', 'created_at']}
clean_startup(startup) ==
    PyDict(SelectSeq(startup.d, LAMBDA m : m.k \notin {keys.id, keys.created_at}))

\* json.dump(..., indent=2): a new line and two spaces per level before
\* every element, ", " becomes "," and the new line.  The elements are
\* joined by halves.
NewlineIndent(level) == <<"\n">> \o [i \in 1..(2 * level) |-> " "]

RECURSIVE json_dump_indent(_, _)
RECURSIVE DumpIndentElems(_, _)
RECURSIVE DumpIndentMembers(_, _)
DumpIndentElems(q, level) ==
    IF Len(q) = 1 THEN NewlineIndent(level) \o json_dump_indent(q[1], level)
    ELSE DumpIndentElems(SubSeq(q, 1, Len(q) \div 2), level) \o <<",">>
         \o DumpIndentElems(SubSeq(q, Len(q) \div 2 + 1, Len(q)), level)
DumpIndentMembers(m, level) ==
    IF Len(m) = 1
    THEN NewlineIndent(level) \o QuoteText(m[1].k) \o <<":", " ">>
         \o json_dump_indent(m[1].v, level)
    ELSE DumpIndentMembers(SubSeq(m, 1, Len(m) \div 2), level) \o <<",">>
         \o DumpIndentMembers(SubSeq(m, Len(m) \div 2 + 1, Len(m)), level)
json_dump_indent(v, level) ==
    IF v.t = "list"
    THEN IF v.l = <<>> THEN <<"[", "]">>
         ELSE <<"[">> \o DumpIndentElems(v.l, level + 1) \o NewlineIndent(level) \o <<"]">>
    ELSE IF v.t = "dict"
    THEN IF v.d = <<>> THEN <<"{", "}">>
         ELSE <<"{">> \o DumpIndentMembers(v.d, level + 1) \o NewlineIndent(level) \o <<"}">>
    ELSE json_dumps(v)

\* f"startup_export_{timestamp}.json", timestamp the "%Y%m%d_%H%M%S" of the
\* clock at `seconds` seconds after midnight of a fixed day
export_filename(seconds) ==
    <<"s", "t", "a", "r", "t", "u", "p", "_", "e", "x", "p", "o", "r", "t", "_">>
    \o <<"2", "0", "2", "5", "0", "1", "0", "1", "_", "0", "0", "0", "0">>
    \o (IF seconds < 10 THEN <<"0">> ELSE <<>>) \o IntText(seconds)
    \o suffix_json

\* a writer that leaves the store-internal fields in
export_unstripped(startups) ==
    res' = Respond("export_to_json", 0, "Exported", Len(startups), 0,
                   <<[filename |-> export_filename(now),
                      text |-> json_dump_indent(PyList(startups), 0)]>>, <<>>)

\* the file export_to_json writes for a list that is not empty
export_write(startups) ==
    res' = Respond("export_to_json", 0, "Exported", Len(startups), 0,
                   <<[filename |-> export_filename(now),
                      text |-> json_dump_indent(
                                  PyList([i \in 1..Len(startups) |->
                                             clean_startup(startups[i])]), 0)]>>, <<>>)

\* export_to_json(): the files written are res.files
export_to_json ==
    /\ \E got \in get_all_startups :
          IF ~got.ok
          THEN res' = Respond("export_to_json", 0, "raised", 0, 0, <<>>, <<>>)
          ELSE IF got.startups = <<>>
          THEN res' = Respond("export_to_json", 0, "No startups to export", 0, 0, <<>>, <<>>)
          ELSE export_write(got.startups)
    /\ UNCHANGED <<table_exists, rows, sqlite_sequence, now, app_started, src>>

(***************************************************************************)
(* Inputs.  Candidates are the mappings found in result files; a document  *)
(* is the make-up of a file's text.                                        *)
(***************************************************************************)
txt_Acme == <<"A", "c", "m", "e">>
txt_Beta_Inc == <<"B", "e", "t", "a", " ", "I", "n", "c">>
txt_A == <<"A">>
txt_B == <<"B">>

Member(k, v) == [k |-> k, v |-> v]

ArrayDoc(items) == [lead |-> <<>>, body |-> PyList(items), trail |-> <<>>]

\* every sequence over S of length at most n
RECURSIVE SeqsUpTo(_, _)
SeqsUpTo(S, n) ==
    IF n = 0 THEN {<<>>}
    ELSE LET shorter == SeqsUpTo(S, n - 1) IN
         shorter \cup {Append(q, x) : q \in shorter, x \in S}

Init ==
    /\ table_exists = FALSE
    /\ rows = <<>>
    /\ sqlite_sequence = 0
    /\ now = 0
    /\ app_started = FALSE
    /\ src = <<>>
    /\ inp = <<>>
    /\ res = NoRes

(***************************************************************************)
(* SpecParse: parse_result_file over texts made of a leading block, the    *)
(* serialisation of an array, and a trailing block.                        *)
(***************************************************************************)
MaxPad == 2

PadAlphabet == {"x", " ", "[", "]", "\""}

ParseArrays ==
    {<<>>,
     <<PyInt(1)>>,
     <<PyList(<<PyInt(1)>>)>>,
     <<PyStr(<<"]">>)>>,
     <<PyDict(<<Member(keys.company_name, PyStr(txt_Acme))>>), PyInt(1)>>}

ParseInputs ==
    {[lead |-> lead, arr |-> arr, data |-> PyList(arr), trail |-> trail] :
        lead \in SeqsUpTo(PadAlphabet, MaxPad),
        arr \in ParseArrays,
        trail \in SeqsUpTo(PadAlphabet, MaxPad)}

ParseText(in) == in.lead \o json_dumps(in.data) \o in.trail

InitParse ==
    /\ table_exists = FALSE
    /\ rows = <<>>
    /\ sqlite_sequence = 0
    /\ now = 0
    /\ app_started = FALSE
    /\ src = <<>>
    /\ inp \in ParseInputs
    /\ res = NoRes

\* api.py parse_result_file on the file of the input
ApiParse ==
    /\ res.op = "none"
    /\ LET startups == parse_result_file(ParseText(inp)) IN
       res' = Respond("parse_result_file", 0, "api", Len(startups), 0, <<>>, startups)
    /\ UNCHANGED <<table_exists, rows, sqlite_sequence, now, app_started, src, inp>>

\* parse_results_to_db.py parse_result_file on the file of the input
P2dParse ==
    /\ res.op = "none"
    /\ LET startups == p2d_parse_result_file(ParseText(inp)) IN
       res' = Respond("parse_result_file", 0, "p2d", Len(startups), 0, <<>>, startups)
    /\ UNCHANGED <<table_exists, rows, sqlite_sequence, now, app_started, src, inp>>

NextParse == ApiParse \/ P2dParse

SpecParse == InitParse /\ [][NextParse]_vars

\* the text as a whole is a JSON document
WholeIsJson(in) == json_loads(Strip(ParseText(in))).ok

\* C5 as stated: parse_result_file returns exactly the elements of the
\* embedded array, whatever characters the leading and the trailing block
\* contain.
C5_AnySurroundingText ==
    res.op = "parse_result_file" => res.body = inp.arr

\* C5, amended: parse_result_file returns exactly the elements of the
\* embedded array when the leading block holds no "[", the trailing block
\* holds no "]", and the text as a whole is not a JSON document of its own
\* (blocks of white space leave the array itself as the document).
C5_RecoveryParsing ==
    (/\ res.op = "parse_result_file"
     /\ Find(inp.lead, "[") = -1
     /\ RFind(inp.trail, "]") = -1
     /\ WholeIsJson(inp) => Strip(inp.lead) = <<>> /\ Strip(inp.trail) = <<>>)
    => res.body = inp.arr

\* the recovery has run on prose around an array with a nested array
C5_Witness ==
    /\ res.op = "parse_result_file"
    /\ inp.lead = <<"x", " ">>
    /\ inp.trail = <<" ", "x">>
    /\ inp.arr = <<PyList(<<PyInt(1)>>)>>
    /\ res.body = inp.arr

(***************************************************************************)
(* SpecRecord: one candidate, ingested from a file of its own through      *)
(* api.py or parse_results_to_db.py, and read back.                        *)
(***************************************************************************)
MaxMembers == 2

txt_amount == <<"a", "m", "o", "u", "n", "t">>
txt_date == <<"d", "a", "t", "e">>
txt_1M == <<"1", "M">>
txt_2020 == <<"2", "0", "2", "0">>
txt_quoted == <<"a", "\"", "\\", "b">>

list_A_B == PyList(<<PyStr(txt_A), PyStr(txt_B)>>)
list_B_A == PyList(<<PyStr(txt_B), PyStr(txt_A)>>)

NameMembers ==
    {Member(keys.company_name, PyStr(txt_Acme)),
     Member(keys.Company_Name, PyStr(txt_Acme)),
     Member(keys.name, PyStr(txt_Beta_Inc))}

RecordMembers ==
    <<Member(keys.Founders, list_B_A),
      Member(keys.Founders, PyList(<<>>)),
      Member(keys.founders, list_A_B),
      Member(keys.founders, PyList(<<PyStr(txt_quoted)>>)),
      Member(keys.founders, None),
      Member(keys.Funding_Rounds, PyList(<<>>)),
      Member(keys.funding_rounds,
             PyList(<<PyDict(<<Member(txt_amount, PyStr(txt_1M)),
                               Member(txt_date, PyStr(txt_2020))>>)>>)),
      Member(keys.Key_Partnerships, PyList(<<PyStr(txt_A)>>)),
      Member(keys.key_partnerships, list_B_A),
      Member(keys.Major_Competitors, PyStr(txt_B)),
      Member(keys.major_competitors, list_A_B),
      Member(keys.founding_year, PyInt(2021)),
      Member(keys.website_url, PyStr(<<>>)),
      Member(keys.website, PyStr(<<"x">>)),
      Member(keys.employees, PyList(<<PyInt(5)>>))>>

\* the ascending selections of at most n members
RECURSIVE Picks(_)
Picks(n) ==
    IF n = 0 THEN {<<>>}
    ELSE LET shorter == Picks(n - 1) IN
         shorter \cup
         {Append(pick[1], pick[2]) :
            pick \in {pr \in shorter \X (1..Len(RecordMembers)) :
                        \/ pr[1] = <<>>
                        \/ /\ Len(pr[1]) = n - 1
                           /\ pr[1][Len(pr[1])] < pr[2]
                           /\ \A i \in 1..Len(pr[1]) :
                                 RecordMembers[pr[1][i]].k # RecordMembers[pr[2]].k}}

RecordItems ==
    {PyDict(<<nm>> \o [i \in 1..Len(pick) |-> RecordMembers[pick[i]]]) :
        nm \in NameMembers, pick \in Picks(MaxMembers)}

RecordDir(cand) == <<File(name_research_results_json, ArrayDoc(<<cand>>))>>

RecordSaveApi ==
    \E cand \in RecordItems :
        /\ inp = <<>>
        /\ save_from_file(name_research_results_json, RecordDir(cand))
        /\ inp' = [cand |-> cand, via |-> "api"]

RecordSaveP2d ==
    \E cand \in RecordItems :
        /\ inp = <<>>
        /\ p2d_main(name_research_results_json, RecordDir(cand))
        /\ inp' = [cand |-> cand, via |-> "p2d"]

RecordStart == startup_event /\ UNCHANGED inp

RecordReadAll == inp # <<>> /\ get_startups(100, None, None) /\ UNCHANGED inp

RecordReadById == \E startup_id \in 1..2 : get_startup_by_id(startup_id) /\ UNCHANGED inp

NextRecord ==
    RecordStart \/ RecordSaveApi \/ RecordSaveP2d \/ RecordReadAll \/ RecordReadById

SpecRecord == Init /\ [][NextRecord]_vars

\* the keys a sequence field is read from
SequenceKeys(c) ==
    CASE c = "founders" -> {keys.Founders, keys.founders}
      [] c = "funding_rounds" -> {keys.Funding_Rounds, keys.funding_rounds}
      [] c = "key_partnerships" -> {keys.Key_Partnerships, keys.key_partnerships}
      [] c = "major_competitors" -> {keys.Major_Competitors, keys.major_competitors}

\* what the candidate supplies for a sequence field
Supplied(cand, c) == {Get(cand, k) : k \in {j \in SequenceKeys(c) : HasKey(cand, j)}}

ReadBack == res.op \in {"get_startups", "get_startup_by_id"} /\ res.status = 200

AcmeRecord ==
    PyDict(<<Member(keys.company_name, PyStr(txt_Acme)),
             Member(keys.founders, list_A_B),
             Member(keys.founding_year, PyInt(2021))>>)

AcmeReadBack ==
    /\ inp # <<>>
    /\ inp.cand = AcmeRecord
    /\ ReadBack

\* C8 as stated: the record {"company_name": "Acme", "founders": ["A","B"],
\* "founding_year": 2021} is stored and read back with those three values
\* unchanged and with website_url equal to None.
C8_WebsiteNone ==
    AcmeReadBack =>
        /\ res.body[1].company_name = PyStr(txt_Acme)
        /\ res.body[1].founders = list_A_B
        /\ res.body[1].founding_year = PyInt(2021)
        /\ res.body[1].website_url = None

\* C8, amended: the record {"company_name": "Acme", "founders": ["A","B"],
\* "founding_year": 2021} is stored and read back with those three values
\* unchanged and with website_url equal to the empty string.
C8_WebsiteEmpty ==
    /\ (inp # <<>> /\ inp.cand = AcmeRecord) => Len(rows) = 1
    /\ AcmeReadBack =>
        /\ res.body[1].company_name = PyStr(txt_Acme)
        /\ res.body[1].founders = list_A_B
        /\ res.body[1].founding_year = PyInt(2021)
        /\ res.body[1].website_url = PyStr(<<>>)

\* the Acme record has been ingested through api.py and listed
C8_Witness ==
    /\ AcmeReadBack
    /\ inp.via = "api"
    /\ res.op = "get_startups"
    /\ Len(res.body) = 1

(***************************************************************************)
(* SpecRequest: one ingestion request, through any of the three entry      *)
(* points, over a directory of result files; the store is empty or holds   *)
(* one earlier row.                                                        *)
(***************************************************************************)
MaxItems == 2

txt_FinTech == <<"F", "i", "n", "T", "e", "c", "h">>
name_batch_results_1_json == prefix_batch_results \o <<"1">> \o suffix_json
name_notes_json == <<"n", "o", "t", "e", "s">> \o suffix_json

cCanon == PyDict(<<Member(keys.company_name, PyStr(txt_Acme))>>)
cAlias == PyDict(<<Member(keys.name, PyStr(txt_Beta_Inc))>>)
cEmpty == PyDict(<<Member(keys.company_name, PyStr(<<>>))>>)
cNoKey == PyDict(<<Member(keys.industry, PyStr(txt_FinTech))>>)
cUnbindable ==
    PyDict(<<Member(keys.name, PyStr(txt_Beta_Inc)),
             Member(keys.employees, PyList(<<PyInt(5)>>))>>)

RequestItems == {cCanon, cAlias, cEmpty, cNoKey, cUnbindable}

RequestDocs ==
    {ArrayDoc(items) : items \in SeqsUpTo(RequestItems, MaxItems)}
    \cup {[lead |-> <<>>, body |-> cAlias, trail |-> <<>>]}

\* a text that is no JSON and holds none: an array after a second '['
BrokenDoc == [lead |-> <<"[">>, body |-> PyList(<<cCanon>>), trail |-> <<>>]

PairDocs ==
    {ArrayDoc(<<cCanon>>), ArrayDoc(<<cEmpty, cAlias>>), ArrayDoc(<<cUnbindable, cAlias>>),
     BrokenDoc}

RequestNames ==
    {name_research_results_json, name_batch_results_1_json, name_all, name_notes_json}

RequestDirs ==
    {<<>>}
    \cup {<<File(name, doc)>> : name \in RequestNames, doc \in RequestDocs}
    \cup {<<File(name_batch_results_1_json, d1), File(name_research_results_json, d2)>> :
            d1 \in PairDocs, d2 \in PairDocs}
    \cup {<<File(name_all, ArrayDoc(<<cCanon>>)),
            File(name_research_results_json, ArrayDoc(<<cAlias>>))>>}

RequestFilenames == {name_all, name_research_results_json, name_notes_json}

Request(filename, dir, via) ==
    [filename |-> filename, dir |-> dir, via |-> via, before |-> rows]

RequestStart == startup_event /\ UNCHANGED inp

\* an earlier ingestion that leaves one row
RequestPrior ==
    /\ inp = <<>>
    /\ rows = <<>>
    /\ p2d_main(name_research_results_json, RecordDir(cCanon))
    /\ UNCHANGED inp

RequestApi ==
    \E filename \in RequestFilenames, dir \in RequestDirs :
        /\ inp = <<>>
        /\ save_from_file(filename, dir)
        /\ inp' = Request(filename, dir, "api")

RequestP2d ==
    \E filename \in RequestFilenames, dir \in RequestDirs :
        /\ inp = <<>>
        /\ p2d_main(filename, dir)
        /\ inp' = Request(filename, dir, "p2d")

RequestRs ==
    \E filename \in RequestFilenames, dir \in RequestDirs :
        /\ inp = <<>>
        /\ parse_and_save_result_file(filename, dir)
        /\ inp' = Request(filename, dir, "rs")

NextRequest == RequestStart \/ RequestPrior \/ RequestApi \/ RequestP2d \/ RequestRs

SpecRequest == Init /\ [][NextRequest]_vars

\* the candidate has a non-empty company name under one of the three keys
HasName(cand) ==
    /\ cand.t = "dict"
    /\ \E k \in {keys.Company_Name, keys.company_name, keys.name} :
          HasKey(cand, k) /\ Get(cand, k).t = "str" /\ Get(cand, k).s # <<>>

\* the candidates held by the files of the request's directory
DirCandidates(dir) ==
    UNION {{f.doc.body} \cup (IF f.doc.body.t = "list"
                              THEN {f.doc.body.l[i] : i \in 1..Len(f.doc.body.l)}
                              ELSE {}) : f \in {dir[i] : i \in 1..Len(dir)}}

\* the candidates of the rows the request has added
AddedCandidates == {src[i].cand : i \in (Len(inp.before) + 1)..Len(rows)}

\* the answer in res is the answer to the request in inp
Answered == inp # <<>> /\ res.op \in {"save_from_file", "p2d_main", "parse_and_save_result_file"}

\* C2: a candidate with no non-empty company name under 'Company Name',
\* 'company_name' or 'name' is rejected by the ingestion of api.py and of
\* parse_results_to_db.py: no row is inserted for it, the rows already
\* stored stay as they were, and it is not counted as saved.
C2_NamelessRejected ==
    (Answered /\ inp.via \in {"api", "p2d"}) =>
        /\ SubSeq(rows, 1, Len(inp.before)) = inp.before
        /\ \A cand \in AddedCandidates : HasName(cand)
        /\ res.saved = Len(rows) - Len(inp.before)
        /\ (\A cand \in DirCandidates(inp.dir) : ~HasName(cand)) =>
               rows = inp.before /\ res.saved = 0

\* a file with a nameless and a named candidate has been ingested, and the
\* named one alone was saved
C2_Witness ==
    /\ Answered
    /\ inp.via = "api"
    /\ inp.filename = name_research_results_json
    /\ inp.dir = <<File(name_research_results_json, ArrayDoc(<<cEmpty, cCanon>>))>>
    /\ res.status = 200
    /\ res.saved = 1
    /\ AddedCandidates = {cCanon}

\* the request is a single-file ingest of an existing file that holds a
\* JSON array of objects: api.py reads any existing path as a single file,
\* parse_results_to_db.py any path but the keyword
SingleArrayIngest ==
    /\ Answered
    /\ inp.via \in {"api", "p2d"}
    /\ inp.via = "p2d" => inp.filename # name_all
    /\ PathExists(inp.dir, inp.filename)
    /\ LET doc == inp.dir[CHOOSE i \in 1..Len(inp.dir) :
                             inp.dir[i].name = inp.filename].doc IN
       /\ doc.lead = <<>> /\ doc.trail = <<>>
       /\ doc.body.t = "list" /\ \A i \in 1..Len(doc.body.l) : doc.body.l[i].t = "dict"

IngestedArray ==
    inp.dir[CHOOSE i \in 1..Len(inp.dir) : inp.dir[i].name = inp.filename].doc.body.l

\* the resolved scalar values of the candidate are texts, integers or null
ScalarsStorable(cand) ==
    \A c \in Columns \ SequenceColumns : InsertParams(cand)[c].t \in {"null", "int", "str"}

C9_AliasAccepted ==
    (/\ Answered
     /\ inp.filename = name_research_results_json
     /\ inp.dir = RecordDir(cAlias))
    => /\ Len(rows) = Len(inp.before) + 1
       /\ rows[Len(rows)].company_name = PyStr(txt_Beta_Inc)

\* no file of the directory matches one of the three patterns
NoPatternFile(dir) ==
    \A i \in 1..Len(dir) :
        /\ dir[i].name # name_research_results_json
        /\ dir[i].name # name_batch_results_1_json

\* C10: ingest("all") when no file matches any of the three patterns ends
\* in 'No result files found' (HTTP 404 from api.py), with no report and
\* no row inserted.
C10_AllNoFiles ==
    (/\ Answered
     /\ inp.via \in {"api", "p2d"}
     /\ inp.filename = name_all
     /\ NoPatternFile(inp.dir))
    => /\ res.detail = "No result files found"
       /\ inp.via = "api" => res.status = 404
       /\ res.saved = 0
       /\ rows = inp.before

(***************************************************************************)
(* Spec: any sequence of ingestions of one result file, through any of     *)
(* the three entry points, while the clock runs.                           *)
(***************************************************************************)
MaxRows == 2

cEmptyLabel == PyDict(<<Member(keys.Company_Name, PyStr(<<>>))>>)

SpecItems == {cCanon, cAlias, cEmptyLabel}

SpecDirs ==
    {<<File(name_research_results_json, ArrayDoc(items))>> :
        items \in SeqsUpTo(SpecItems, MaxItems) \ {<<>>}}

SpecStart == startup_event /\ UNCHANGED inp

SpecTick == Tick /\ UNCHANGED inp

IngestApi ==
    \E dir \in SpecDirs :
        /\ Len(rows) < MaxRows
        /\ save_from_file(name_research_results_json, dir)
        /\ UNCHANGED inp

IngestP2d ==
    \E dir \in SpecDirs :
        /\ Len(rows) < MaxRows
        /\ p2d_main(name_research_results_json, dir)
        /\ UNCHANGED inp

IngestRs ==
    \E dir \in SpecDirs :
        /\ Len(rows) < MaxRows
        /\ parse_and_save_result_file(name_research_results_json, dir)
        /\ UNCHANGED inp

Next == SpecStart \/ SpecTick \/ IngestApi \/ IngestP2d \/ IngestRs

Spec == Init /\ [][Next]_vars

\* C3: after any sequence of ingestions through any entry point, every
\* persisted row has a non-empty company_name.
C3_NameNeverEmpty ==
    \A i \in 1..Len(rows) :
        rows[i].company_name.t = "str" /\ rows[i].company_name.s # <<>>

(***************************************************************************)
(* SpecQuery: GET /startups and GET /stats over the stores that            *)
(* POST /save-from-file builds, one candidate at a time, within one       *)
(* second: every order of the rows is a possible order of the listing.    *)
(***************************************************************************)
txt_Health == <<"H", "e", "a", "l", "t", "h">>
txt_fin == <<"f", "i", "n">>
txt_FIN == <<"F", "I", "N">>

QueryItems ==
    {PyDict(<<Member(keys.company_name, PyStr(txt_Acme)),
              Member(keys.industry, PyStr(txt_FinTech)),
              Member(keys.founding_year, PyInt(2021)),
              Member(keys.total_funding, PyStr(txt_1M))>>),
     PyDict(<<Member(keys.name, PyStr(txt_Beta_Inc)),
              Member(keys.industry_sector, PyStr(txt_Health)),
              Member(keys.founded, PyInt(1999)),
              Member(keys.total_funding, PyStr(txt_Not_disclosed))>>),
     PyDict(<<Member(keys.company_name, PyStr(txt_Acme)),
              Member(keys.industry, None)>>)}

QueryLimits == {100, 1}
QueryIndustries == {None, PyStr(txt_fin), PyStr(txt_FIN)}
QueryYears == {None, PyInt(2021), PyInt(0)}

QueryStart == startup_event /\ UNCHANGED inp

QueryIngest ==
    \E cand \in QueryItems :
        /\ Len(rows) < MaxRows
        /\ save_from_file(name_research_results_json, RecordDir(cand))
        /\ UNCHANGED inp

QueryList ==
    \E limit \in QueryLimits, industry \in QueryIndustries, founding_year \in QueryYears :
        /\ get_startups(limit, industry, founding_year)
        /\ inp' = [limit |-> limit, industry |-> industry, founding_year |-> founding_year]

QueryStats == get_stats /\ UNCHANGED inp

NextQuery == QueryStart \/ QueryIngest \/ QueryList \/ QueryStats

SpecQuery == Init /\ [][NextQuery]_vars

\* C6: stats() over a store with zero rows returns total count 0, an empty
\* industry list, a null average founding year and
\* total_funding_disclosed = 0.
C6_EmptyStats ==
    (res.op = "get_stats" /\ rows = <<>>) =>
        /\ res.status = 200
        /\ res.body = [total_startups |-> 0, industries |-> <<>>,
                       avg_founding_year |-> None, total_funding_disclosed |-> 0]

\* GET /stats has answered over the empty table
C6_Witness ==
    /\ res.op = "get_stats"
    /\ table_exists
    /\ rows = <<>>
    /\ res.body.total_startups = 0

\* the record passes the filters of the query
Matches(st, q) ==
    /\ q.industry # None =>
          /\ st.industry_sector.t = "str"
          /\ Contains(Lower(st.industry_sector.s), Lower(q.industry.s))
    /\ q.founding_year # None => st.founding_year = q.founding_year

\* C7: over every store reached by ingestion and for every filter value,
\* GET /startups answers with a list, not an error: the stored records, up
\* to the limit, whose industry_sector contains the industry filter
\* case-insensitively and whose founding_year equals the founding_year
\* filter, and no record that fails a filter.
C7_Filters ==
    res.op = "get_startups" =>
        /\ res.status = 200
        /\ \A i \in 1..Len(res.body) : Matches(res.body[i], inp)
        /\ \E all \in get_all_startups_from_db :
              res.body = SliceTo(SelectSeq(all, LAMBDA st : Matches(st, inp)), inp.limit)

(***************************************************************************)
(* The resolution order of save_startup_to_db, over SpecRecord             *)
(***************************************************************************)
\* the keys a field is looked up under: label, canonical key, alias
ResolutionKeys(c) ==
    CASE c = "company_name" -> <<keys.Company_Name, keys.company_name, keys.name>>
      [] c = "website_url" -> <<keys.Website_URL, keys.website_url, keys.website>>
      [] c = "founding_year" -> <<keys.Founding_Year, keys.founding_year, keys.founded>>
      [] c = "founders" -> <<keys.Founders, keys.founders>>
      [] c = "business_model" -> <<keys.Business_Model, keys.business_model>>
      [] c = "industry_sector" -> <<keys.Industry_Sector, keys.industry_sector, keys.industry>>
      [] c = "funding_rounds" -> <<keys.Funding_Rounds, keys.funding_rounds>>
      [] c = "total_capital_raised" ->
            <<keys.Total_Capital_Raised_to_Date, keys.total_capital_raised, keys.total_funding>>
      [] c = "current_revenue_estimates" ->
            <<keys.Current_Revenue_Estimates, keys.current_revenue_estimates, keys.revenue>>
      [] c = "employee_count" -> <<keys.Employee_Count, keys.employee_count, keys.employees>>
      [] c = "customer_user_base_size" ->
            <<keys.Customer_User_Base_Size, keys.customer_user_base_size, keys.users>>
      [] c = "key_partnerships" -> <<keys.Key_Partnerships, keys.key_partnerships>>
      [] c = "major_competitors" -> <<keys.Major_Competitors, keys.major_competitors>>
      [] c = "recent_news_developments" ->
            <<keys.Recent_News_or_Developments, keys.recent_news_developments, keys.recent_news>>

\* the default of a field
FieldDefault(c) ==
    IF c \in SequenceColumns THEN PyList(<<>>)
    ELSE IF c \in IntegerColumns THEN None
    ELSE PyStr(<<>>)

NonEmptyValue(v) == v # None /\ v # PyStr(<<>>) /\ v # PyList(<<>>)

\* the first non-empty value under the keys, in their order, or the default
RECURSIVE FirstNonEmpty(_, _, _)
FirstNonEmpty(cand, ks, dflt) ==
    IF ks = <<>> THEN dflt
    ELSE IF NonEmptyValue(Get(cand, Head(ks))) THEN Get(cand, Head(ks))
    ELSE FirstNonEmpty(cand, Tail(ks), dflt)

\* the value a column holds, sequence columns decoded
ColumnValue(row, c) ==
    IF c \in SequenceColumns /\ row[c].t = "str" THEN json_loads(row[c].s).v ELSE row[c]

\* a resolved value as its column holds it
AsStored(v, c) ==
    IF c \in SequenceColumns THEN v
    ELSE IF c \in TextColumns THEN TextAffinity(v)
    ELSE IntegerAffinity(v)

\* C11: for every field save_startup_to_db writes, the stored value is the
\* first non-empty value found under the label, the canonical key and the
\* alias, in that order, and the field's default when none is non-empty:
\* the empty string for text fields, the empty sequence for the four
\* sequence fields, null for founding_year and employee_count.
C11_FirstNonEmptyWins ==
    (inp # <<>> /\ Len(rows) = 1) =>
        \A c \in Columns :
            ColumnValue(rows[1], c) =
                AsStored(FirstNonEmpty(inp.cand, ResolutionKeys(c), FieldDefault(c)), c)

(***************************************************************************)
(* SpecList: GET /startups over stores whose rows were created at          *)
(* different seconds                                                       *)
(***************************************************************************)
ListItems ==
    {PyDict(<<Member(keys.company_name, PyStr(txt_Acme)),
              Member(keys.industry, PyStr(txt_FinTech)),
              Member(keys.founding_year, PyInt(2021))>>),
     PyDict(<<Member(keys.name, PyStr(txt_Beta_Inc)),
              Member(keys.industry_sector, PyStr(txt_Health)),
              Member(keys.founded, PyInt(1999))>>)}

ListLimits == {-1, 1, 100}
ListIndustries == {None, PyStr(txt_fin)}
ListYears == {None, PyInt(2021)}

ListIngest ==
    \E cand \in ListItems :
        /\ Len(rows) < MaxRows
        /\ save_from_file(name_research_results_json, RecordDir(cand))
        /\ UNCHANGED inp

ListQuery ==
    \E limit \in ListLimits, industry \in ListIndustries, founding_year \in ListYears :
        /\ get_startups(limit, industry, founding_year)
        /\ inp' = [limit |-> limit, industry |-> industry, founding_year |-> founding_year]

ListIds == 1..3

ListById ==
    \E startup_id \in ListIds :
        /\ get_startup_by_id(startup_id)
        /\ inp' = [startup_id |-> startup_id]

NextList == QueryStart \/ ListIngest \/ SpecTick \/ ListQuery \/ ListById

SpecList == Init /\ [][NextList]_vars

\* the first n elements of q, all of q when it has fewer, none when n < 0
FirstN(q, n) == SubSeq(q, 1, IF n < 0 THEN 0 ELSE IF n < Len(q) THEN n ELSE Len(q))

NewestFirst(q) == \A i, j \in 1..Len(q) : i < j => q[i].created_at.n >= q[j].created_at.n

\* C12: for every store state and every integer limit, GET /startups
\* returns the records that match the filters, newest first by created_at,
\* cut to at most limit records (none when the limit is negative), the
\* limit applied after the filters.
C12_NewestFirstLimited ==
    res.op = "get_startups" =>
        /\ res.status = 200
        /\ NewestFirst(res.body)
        /\ \E all \in get_all_startups_from_db :
              res.body = FirstN(SelectSeq(all, LAMBDA st : Matches(st, inp)), inp.limit)

(***************************************************************************)
(* GET /stats over the stores of SpecQuery                                 *)
(***************************************************************************)
RECURSIVE YearSum(_)
YearSum(q) ==
    IF q = <<>> THEN 0
    ELSE (IF Head(q).founding_year.t = "int" THEN Head(q).founding_year.n ELSE 0)
         + YearSum(Tail(q))

YearCount == Cardinality({i \in 1..Len(rows) : rows[i].founding_year # None})

\* C13: after any sequence of ingests GET /stats returns the number of
\* stored rows, the distinct non-empty industry_sector values (no empty
\* string, no null, no duplicate), the number of rows whose
\* total_capital_raised is non-null, non-empty and not "Not disclosed", and
\* the average founding year over the rows with a non-null founding_year.
C13_Stats ==
    res.op = "get_stats" =>
        /\ res.status = 200
        /\ res.body.total_startups = Len(rows)
        /\ \A i, j \in 1..Len(res.body.industries) :
              i # j => res.body.industries[i] # res.body.industries[j]
        /\ {res.body.industries[i] : i \in 1..Len(res.body.industries)} =
              {rows[i].industry_sector : i \in 1..Len(rows)} \ {None, PyStr(<<>>)}
        /\ res.body.total_funding_disclosed =
              Cardinality({i \in 1..Len(rows) :
                  rows[i].total_capital_raised \notin
                      {None, PyStr(<<>>), PyStr(txt_Not_disclosed)}})
        /\ IF YearCount = 0
           THEN res.body.avg_founding_year = None
           ELSE /\ res.body.avg_founding_year.t = "float"
                /\ res.body.avg_founding_year.n * YearCount =
                      YearSum(rows) * res.body.avg_founding_year.d[1]

\* GET /stats has answered over two rows: one with a year and a disclosed
\* amount, one without a year, with a null industry and no amount
C13_Witness ==
    /\ res.op = "get_stats"
    /\ Len(rows) = 2
    /\ rows[1].founding_year = PyInt(2021)
    /\ rows[2].founding_year = None
    /\ rows[2].industry_sector = None
    /\ res.body.total_startups = 2
    /\ res.body.industries = <<PyStr(txt_FinTech)>>
    /\ res.body.total_funding_disclosed = 1
    /\ res.body.avg_founding_year = PyFloat(2021, 1)

(***************************************************************************)
(* GET /startups/{startup_id} over the stores of SpecList                  *)
(***************************************************************************)
\* C14: GET /startups/{startup_id} returns the stored record whose id is
\* the argument when such a row exists, and answers 404 (not 500, and with
\* no other record) when no row has that id.
C14_ById ==
    res.op = "get_startup_by_id" =>
        IF \E i \in 1..Len(rows) : rows[i].id.n = inp.startup_id
        THEN /\ res.status = 200
             /\ Len(res.body) = 1
             /\ res.body[1].id.n = inp.startup_id
             /\ \E i \in 1..Len(rows) :
                   /\ rows[i].id = res.body[1].id
                   /\ \A c \in (Columns \cup {"created_at"}) \ SequenceColumns :
                         res.body[1][c] = rows[i][c]
                   /\ \A c \in SequenceColumns :
                         res.body[1][c] = json_loads(rows[i][c].s).v
        ELSE /\ res.status = 404
             /\ res.body = <<>>

\* the second of two rows has been returned for its id
C14_Witness ==
    /\ res.op = "get_startup_by_id"
    /\ Len(rows) = 2
    /\ inp.startup_id = 2
    /\ res.status = 200
    /\ res.body[1].id = PyInt(2)
    /\ res.body[1].company_name # rows[1].company_name

(***************************************************************************)
(* Failures inside a batch, over SpecRequest                               *)
(***************************************************************************)
\* the request runs over every file of the three patterns
AllRun ==
    /\ inp.filename = name_all
    /\ inp.via = "api" => ~PathExists(inp.dir, name_all)

\* the files the request reads, in the order it reads them
RunFiles ==
    IF AllRun THEN AllFiles(inp.dir)
    ELSE SelectSeq(inp.dir, LAMBDA f : f.name = inp.filename)

\* the candidates a file holds: none when its text is no JSON
FileCandidates(f) ==
    IF f.doc.lead # <<>> \/ f.doc.trail # <<>> THEN <<>>
    ELSE IF f.doc.body.t = "list" THEN f.doc.body.l
    ELSE IF f.doc.body.t = "dict" THEN <<f.doc.body>>
    ELSE <<>>

\* the candidates of a file whose INSERT succeeds
FileSavable(f) == SelectSeq(FileCandidates(f), LAMBDA c : HasName(c) /\ ScalarsStorable(c))

RECURSIVE RunSavable(_)
RunSavable(files) ==
    IF files = <<>> THEN <<>> ELSE FileSavable(Head(files)) \o RunSavable(Tail(files))

\* C15: a failure on one item never aborts a batch of api.py or
\* parse_results_to_db.py: a candidate whose INSERT fails is rolled back
\* and not counted, a file of an "all" run whose text cannot be parsed
\* contributes no record, every other candidate of every file of the run
\* is saved, no row stored before is undone, and the summary is returned.
C15_FailuresAbsorbed ==
    (Answered /\ inp.via \in {"api", "p2d"}) =>
        /\ SubSeq(rows, 1, Len(inp.before)) = inp.before
        /\ [i \in 1..(Len(rows) - Len(inp.before)) |-> src[Len(inp.before) + i].cand] =
              RunSavable(RunFiles)
        /\ res.saved = Len(RunSavable(RunFiles))
        /\ (AllRun /\ RunFiles # <<>>) =>
              /\ res.detail = "all"
              /\ inp.via = "api" =>
                    /\ res.status = 200
                    /\ res.files = [i \in 1..Len(RunFiles) |->
                                      [filename |-> RunFiles[i].name,
                                       startups_saved |-> Len(FileSavable(RunFiles[i]))]]

\* an "all" run of api.py over a file that cannot be parsed and a file
\* whose first candidate fails its INSERT has saved the candidate after it
C15_Witness ==
    /\ Answered
    /\ inp.via = "api"
    /\ inp.filename = name_all
    /\ inp.dir = <<File(name_batch_results_1_json, ArrayDoc(<<cUnbindable, cAlias>>)),
                   File(name_research_results_json, BrokenDoc)>>
    /\ Len(inp.before) = 1
    /\ Len(rows) = 2
    /\ src[2].cand = cAlias
    /\ res.status = 200
    /\ res.saved = 1
    /\ res.files = <<[filename |-> name_research_results_json, startups_saved |-> 0],
                     [filename |-> name_batch_results_1_json, startups_saved |-> 1]>>

(***************************************************************************)
(* SpecShape: parse_result_file over files that hold one JSON value of any *)
(* shape, with white space around it                                       *)
(***************************************************************************)
ShapeValues ==
    {PyList(<<>>),
     PyList(<<cCanon, cAlias>>),
     PyList(<<cAlias, PyInt(1), cCanon>>),
     PyList(<<PyList(<<cCanon>>), PyBool(TRUE)>>),
     cCanon,
     PyDict(<<>>),
     PyDict(<<Member(keys.founders, list_A_B)>>),
     PyInt(0),
     PyInt(12),
     PyStr(<<>>),
     PyStr(<<"[", "1", "]">>),
     PyBool(TRUE),
     PyBool(FALSE),
     None}

ShapeInputs ==
    {[lead |-> lead, data |-> data, trail |-> trail] :
        lead \in SeqsUpTo(Whitespace, MaxPad),
        data \in ShapeValues,
        trail \in SeqsUpTo(Whitespace, MaxPad)}

InitShape ==
    /\ table_exists = FALSE
    /\ rows = <<>>
    /\ sqlite_sequence = 0
    /\ now = 0
    /\ app_started = FALSE
    /\ src = <<>>
    /\ inp \in ShapeInputs
    /\ res = NoRes

SpecShape == InitShape /\ [][NextParse]_vars

\* C16: parse_result_file yields the elements of a parsed JSON array, in
\* their order, as candidates; a parsed JSON object as the one candidate;
\* and no candidate for any other parsed value (number, string, boolean,
\* null).
C16_Shapes ==
    res.op = "parse_result_file" =>
        /\ inp.data.t = "list" => res.body = inp.data.l
        /\ inp.data.t = "dict" => res.body = <<inp.data>>
        /\ inp.data.t \notin {"list", "dict"} => res.body = <<>>

\* an object between white space has been parsed into one candidate
C16_Witness ==
    /\ res.op = "parse_result_file"
    /\ inp.lead = <<" ", "\n">>
    /\ inp.trail = <<"\n">>
    /\ inp.data = PyDict(<<Member(keys.founders, list_A_B)>>)
    /\ res.body = <<inp.data>>

(***************************************************************************)
(* The keyword "all", over SpecRequest                                     *)
(***************************************************************************)
\* C17: when the source argument is the keyword "all", the files ingested
\* by api.py and parse_results_to_db.py are exactly the files that match
\* research_results.json, research_results_backup_*.json or
\* batch_results_*.json, each processed once, whatever other file the
\* working directory holds.
C17_AllIsThePatterns ==
    (Answered /\ inp.via \in {"api", "p2d"} /\ inp.filename = name_all) =>
        /\ [i \in 1..(Len(rows) - Len(inp.before)) |-> src[Len(inp.before) + i].cand] =
              RunSavable(AllFiles(inp.dir))
        /\ (inp.via = "api" /\ AllFiles(inp.dir) # <<>>) =>
              [i \in 1..Len(res.files) |-> res.files[i].filename] =
                  [i \in 1..Len(AllFiles(inp.dir)) |-> AllFiles(inp.dir)[i].name]

(***************************************************************************)
(* SpecExport: export_to_json of query_startup_db.py over stores filled    *)
(* through api.py while the clock runs                                     *)
(***************************************************************************)
ExportItems ==
    {AcmeRecord,
     cAlias,
     PyDict(<<Member(keys.name, PyStr(txt_Beta_Inc)),
              Member(keys.key_partnerships, list_B_A),
              Member(keys.employees, PyInt(5))>>)}

ExportIngest ==
    \E cand \in ExportItems :
        /\ Len(rows) < MaxRows
        /\ save_from_file(name_research_results_json, RecordDir(cand))
        /\ UNCHANGED inp

ExportRun == export_to_json /\ UNCHANGED inp

NextExport == QueryStart \/ ExportIngest \/ SpecTick \/ ExportRun

SpecExport == Init /\ [][NextExport]_vars

\* startup_export_YYYYMMDD_HHMMSS.json
TimestampNamed(name) ==
    /\ Len(name) = 35
    /\ SubSeq(name, 1, 15) =
          <<"s", "t", "a", "r", "t", "u", "p", "_", "e", "x", "p", "o", "r", "t", "_">>
    /\ \A i \in (16..23) \cup (25..30) : IsDigit(name[i])
    /\ name[24] = "_"
    /\ SubSeq(name, 31, 35) = suffix_json

\* the entry holds the fields of the row but id and created_at, unchanged
EntryOfRow(entry, row) ==
    /\ entry.t = "dict"
    /\ Len(entry.d) = Cardinality(Columns)
    /\ \A i \in 1..Len(entry.d) : entry.d[i].k \notin {keys.id, keys.created_at}
    /\ \A i \in 1..Len(export_keys) :
          /\ HasKey(entry, export_keys[i].k)
          /\ Get(entry, export_keys[i].k) = ColumnValue(row, export_keys[i].c)

\* one file has been written, and it holds the stored records in list order
ExportedFile ==
    /\ Len(res.files) = 1
    /\ TimestampNamed(res.files[1].filename)
    /\ json_loads(res.files[1].text).ok
    /\ json_loads(res.files[1].text).v.t = "list"
    /\ Len(json_loads(res.files[1].text).v.l) = Len(rows)
    /\ \E t \in CreatedAtDesc(rows) :
          \A i \in 1..Len(rows) : EntryOfRow(json_loads(res.files[1].text).v.l[i], t[i])

\* C18 as stated: for every store state export_to_json writes one
\* timestamp-named JSON file with one entry per stored record, in list
\* order, each without id and created_at and with every other field
\* unchanged.
C18_ExportEveryStore ==
    res.op = "export_to_json" => ExportedFile

\* C18, amended: over a store that holds at least one record
\* export_to_json writes one timestamp-named JSON file with one entry per
\* stored record, in list order (newest first), each without id and
\* created_at and with every other field unchanged; over a store with no
\* record it writes no file.
C18_ExportNonEmpty ==
    res.op = "export_to_json" =>
        IF rows = <<>> THEN res.files = <<>> ELSE ExportedFile

\* two records stored at different seconds have been exported, the newer
\* one first, with its partnerships in their order
C18_Witness ==
    /\ res.op = "export_to_json"
    /\ Len(rows) = 2
    /\ rows[1].created_at.n < rows[2].created_at.n
    /\ rows[2].key_partnerships = PyStr(json_dumps(list_B_A))
    /\ Len(res.files) = 1
    /\ Get(json_loads(res.files[1].text).v.l[1], keys.Key_Partnerships) = list_B_A
    /\ Get(json_loads(res.files[1].text).v.l[2], keys.Founders) = list_A_B

(***************************************************************************)
(* SpecSchema: any sequence of ingestions through the three entry points,  *)
(* with INSERTs that fail, and of calls of create_startup_database         *)
(***************************************************************************)
\* a named candidate whose INSERT fails in each of the three writers
cUnbound ==
    PyDict(<<Member(keys.Company_Name, PyStr(txt_Acme)),
             Member(keys.Employee_Count, PyList(<<PyInt(5)>>))>>)

SchemaItems == {cCanon, cUnbound}

SchemaDirs ==
    {<<File(name_research_results_json, ArrayDoc(items))>> :
        items \in SeqsUpTo(SchemaItems, MaxItems) \ {<<>>}}

SchemaIngest ==
    \E dir \in SchemaDirs :
        /\ Len(rows) < MaxRows
        /\ \/ save_from_file(name_research_results_json, dir)
           \/ p2d_main(name_research_results_json, dir)
           \/ parse_and_save_result_file(name_research_results_json, dir)
        /\ UNCHANGED inp

SchemaCreate == create_startup_database /\ UNCHANGED inp

NextSchema == QueryStart \/ SchemaCreate \/ SchemaIngest

SpecSchema == Init /\ [][NextSchema]_vars

\* C19: after any sequence of ingests, failed inserts included, the ids of
\* the stored rows are pairwise distinct, a row inserted later has a
\* larger id than every row inserted before it, and no id is assigned
\* twice: every id assigned so far is at most the AUTOINCREMENT counter,
\* above which the next id is taken.
C19_IdsIncreasing ==
    /\ \A i, j \in 1..Len(rows) : i < j => rows[i].id.n < rows[j].id.n
    /\ \A i \in 1..Len(rows) : rows[i].id.n \in 1..sqlite_sequence

\* a batch of research_startups.py in which one INSERT failed has added
\* the second row of the table
C19_Witness ==
    /\ res.op = "parse_and_save_result_file"
    /\ res.found = 2
    /\ res.saved = 2
    /\ res.pre = 1
    /\ Len(rows) = 2
    /\ rows[1].id = PyInt(1)
    /\ rows[2].id = PyInt(2)

\* C20: create_startup_database is idempotent: a call at any point of a
\* sequence of ingests leaves the rows, their ids and the id counter as
\* they were and the table in place, so that the state after any number
\* of calls is the state after one; and the call save_startups_to_db makes
\* before a batch leaves the rows it finds in place, with their ids, below
\* the rows of the batch, and does not lower the counter.
C20_CreateIdempotent ==
    [][/\ res'.op = "create_startup_database" =>
              /\ table_exists'
              /\ rows' = rows
              /\ sqlite_sequence' = sqlite_sequence
              /\ src' = src
              /\ (res.op = "create_startup_database" => table_exists' = table_exists)
       /\ res'.op = "p2d_main" =>
              /\ table_exists => table_exists'
              /\ Len(rows') >= Len(rows)
              /\ SubSeq(rows', 1, Len(rows)) = rows
              /\ sqlite_sequence' >= sqlite_sequence]_vars

\* create_startup_database has been called over a table of two rows, which
\* are still there
C20_Witness ==
    /\ res.op = "create_startup_database"
    /\ res.pre = 2
    /\ Len(rows) = 2
    /\ sqlite_sequence = 2
    /\ table_exists

(***************************************************************************)
(* SpecUnread: GET /startups and GET /stats while startup_research.db is   *)
(* taken away under the running application                                *)
(***************************************************************************)
\* the file startup_research.db is removed by its administrator; the next
\* sqlite3.connect('startup_research.db') creates an empty database, in
\* which the table `startups` is missing
StoreRemoved ==
    /\ app_started
    /\ table_exists
    /\ table_exists' = FALSE
    /\ rows' = <<>>
    /\ sqlite_sequence' = 0
    /\ src' = <<>>
    /\ res' = Respond("store_removed", 0, "", 0, 0, <<>>, <<>>)
    /\ UNCHANGED <<now, app_started, inp>>

UnreadIngest == table_exists /\ QueryIngest

NextUnread == QueryStart \/ UnreadIngest \/ StoreRemoved \/ QueryList \/ QueryStats

SpecUnread == Init /\ [][NextUnread]_vars

\* C21: when the store cannot be read (the table is missing), GET /startups
\* and GET /stats answer with an error of status 500, never with a success
\* payload.
C21_UnreadableIs500 ==
    (res.op \in {"get_startups", "get_stats"} /\ ~table_exists) => res.status = 500

(***************************************************************************)
(* SpecEmbedded: parse_result_file over files that hold one JSON object    *)
(* with prose before it, after it, or both                                 *)
(***************************************************************************)
ProseAlphabet == {"x", " "}

EmbeddedObjects ==
    {cCanon,
     PyDict(<<>>),
     PyDict(<<Member(keys.founders, list_A_B)>>),
     PyDict(<<Member(keys.company_name, PyStr(txt_Acme)),
              Member(keys.founders, list_A_B),
              Member(keys.major_competitors, PyList(<<PyStr(txt_B)>>))>>)}

EmbeddedInputs ==
    {in \in [lead : SeqsUpTo(ProseAlphabet, MaxPad),
             data : EmbeddedObjects,
             trail : SeqsUpTo(ProseAlphabet, MaxPad)] :
        Strip(in.lead) # <<>> \/ Strip(in.trail) # <<>>}

InitEmbedded ==
    /\ table_exists = FALSE
    /\ rows = <<>>
    /\ sqlite_sequence = 0
    /\ now = 0
    /\ app_started = FALSE
    /\ src = <<>>
    /\ inp \in EmbeddedInputs
    /\ res = NoRes

SpecEmbedded == InitEmbedded /\ [][NextParse]_vars

\* C22: parse_result_file on a file that consists of one well-formed JSON
\* object surrounded by non-JSON text returns exactly that object as the
\* single candidate, for every such object, those with array-valued fields
\* included.
C22_EmbeddedObject ==
    res.op = "parse_result_file" => res.body = <<inp.data>>

(***************************************************************************)
(* SpecOps: every operation of the programs in any order: the three        *)
(* ingestions, create_startup_database, GET /startups, GET /startups/{id}, *)
(* GET /stats, POST /query and export_to_json, while the clock runs        *)
(***************************************************************************)
\* the sample of POST /query: startups[:5], each formatted with
\* startup['business_model'][:100], which raises on None
SampleFormats(startups) ==
    \A i \in 1..Len(SliceTo(startups, 5)) : startups[i].business_model.t = "str"

\* POST /query: get_database_stats(), get_all_startups_from_db(), the
\* context text, the chat completion (which answers or raises), and the
\* reply with the statistics
query_analytics ==
    /\ app_started
    /\ \E stats \in get_database_stats, startups \in get_all_startups_from_db,
          completed \in BOOLEAN :
          IF SampleFormats(startups) /\ completed
          THEN res' = Respond("query_analytics", 200, "", Len(SliceTo(startups, 5)), 0,
                              <<>>, stats)
          ELSE res' = Respond("query_analytics", 500, "Error processing query", 0, 0,
                              <<>>, <<>>)
    /\ UNCHANGED <<table_exists, rows, sqlite_sequence, now, app_started, src>>

cNoModel ==
    PyDict(<<Member(keys.company_name, PyStr(txt_Beta_Inc)),
             Member(keys.business_model, None)>>)

OpsIngest ==
    /\ Len(rows) < MaxRows
    /\ \/ save_from_file(name_research_results_json, RecordDir(cNoModel))
       \/ p2d_main(name_research_results_json, RecordDir(cNoModel))
       \/ parse_and_save_result_file(name_research_results_json, RecordDir(cNoModel))
    /\ UNCHANGED inp

OpsList == get_startups(100, None, None) /\ UNCHANGED inp

OpsById == \E startup_id \in 1..2 : get_startup_by_id(startup_id) /\ UNCHANGED inp

OpsAnswer == query_analytics /\ UNCHANGED inp

NextOps ==
    \/ QueryStart
    \/ SchemaCreate
    \/ SpecTick
    \/ OpsIngest
    \/ OpsList
    \/ OpsById
    \/ QueryStats
    \/ OpsAnswer
    \/ ExportRun

SpecOps == Init /\ [][NextOps]_vars

ReadOperations ==
    {"get_startups", "get_startup_by_id", "get_stats", "query_analytics", "export_to_json"}

\* C23: rows are never updated or deleted: whatever operation runs (an
\* ingest, a schema creation, list, get by id, stats, export, answer),
\* every row persisted before it is still in its place with all its fields
\* and its created_at unchanged; and list, get by id, stats, export and
\* answer leave the rows, the id counter and the table as they were.
C23_Frame ==
    [][/\ Len(rows') >= Len(rows)
       /\ SubSeq(rows', 1, Len(rows)) = rows
       /\ res'.op \in ReadOperations =>
              /\ rows' = rows
              /\ sqlite_sequence' = sqlite_sequence
              /\ table_exists' = table_exists]_vars

\* an export has run over two rows that were inserted in different
\* seconds, after a second ingest that left the first row as it was
C23_Witness ==
    /\ res.op = "export_to_json"
    /\ res.found = 2
    /\ Len(rows) = 2
    /\ rows[1].id = PyInt(1)
    /\ rows[1].created_at = PyInt(0)
    /\ rows[2].created_at = PyInt(1)

(***************************************************************************)
(* SpecConn: the store operations of api.py, step by step: the call,       *)
(* sqlite3.connect, the statement, and the way out.  inp is the operation  *)
(* in progress, its position, and the number of connections that are open. *)
(***************************************************************************)
MaxOpen == 2

StoreOperations ==
    {"create_startup_database", "save_startup_to_db", "get_all_startups_from_db",
     "get_database_stats", "get_startup_by_id"}

Idle(open) == [op |-> "none", pc |-> "none", open |-> open]

InitConn ==
    /\ table_exists = FALSE
    /\ rows = <<>>
    /\ sqlite_sequence = 0
    /\ now = 0
    /\ app_started = FALSE
    /\ src = <<>>
    /\ inp = Idle(0)
    /\ res = NoRes

\* an operation is called
ConnCall ==
    \E op \in StoreOperations :
        /\ inp.op = "none"
        /\ inp.open < MaxOpen
        /\ inp' = [op |-> op, pc |-> "connect", open |-> inp.open]
        /\ UNCHANGED <<table_exists, rows, sqlite_sequence, now, app_started, src, res>>

\* conn = get_db_connection(): sqlite3.connect opens a connection of the
\* operation's own, or raises
ConnConnect ==
    /\ inp.pc = "connect"
    /\ \/ inp' = [inp EXCEPT !.pc = "execute", !.open = @ + 1]
       \/ inp' = [inp EXCEPT !.pc = "raise"]
    /\ UNCHANGED <<table_exists, rows, sqlite_sequence, now, app_started, src, res>>

\* the statement of the operation raises: create_startup_database has no
\* handler, so the exception leaves it before conn.close(); the other four
\* run their except branch and then the finally with conn.close()
ConnStatementRaises ==
    /\ inp.pc = "execute"
    /\ inp' = [inp EXCEPT !.pc = IF inp.op = "create_startup_database"
                                 THEN "raise" ELSE "close"]
    /\ res' = Respond(inp.op, 0, "raised", 0, 0, <<>>, <<>>)
    /\ UNCHANGED <<table_exists, rows, sqlite_sequence, now, app_started, src>>

\* the statement of the operation succeeds; create_startup_database goes
\* on to conn.commit() and conn.close(), the other four to the finally
ConnStatement ==
    /\ inp.pc = "execute"
    /\ inp' = [inp EXCEPT !.pc = "close"]
    /\ CASE inp.op = "create_startup_database" ->
              /\ table_exists' = TRUE
              /\ res' = Respond(inp.op, 0, "", 0, 0, <<>>, <<>>)
              /\ UNCHANGED <<rows, sqlite_sequence, src>>
         [] inp.op = "save_startup_to_db" ->
              \E cand \in SchemaItems :
              \E done \in {Insert(Start, InsertParams(cand), cand, "api", FALSE)} :
                  /\ table_exists
                  /\ Len(rows) < MaxRows
                  /\ Commit(done)
                  /\ res' = Respond(inp.op, 0, "", 1, done.saved, <<>>, <<>>)
                  /\ UNCHANGED table_exists
         [] inp.op = "get_all_startups_from_db" ->
              \E startups \in get_all_startups_from_db :
                  /\ res' = Respond(inp.op, 0, "", Len(startups), 0, <<>>, startups)
                  /\ UNCHANGED <<table_exists, rows, sqlite_sequence, src>>
         [] inp.op = "get_database_stats" ->
              \E stats \in get_database_stats :
                  /\ res' = Respond(inp.op, 0, "", 0, 0, <<>>, stats)
                  /\ UNCHANGED <<table_exists, rows, sqlite_sequence, src>>
         [] inp.op = "get_startup_by_id" ->
              /\ table_exists
              /\ res' = Respond(inp.op, 0, "", 0, 0, <<>>,
                                SelectSeq(rows, LAMBDA row : row.id = PyInt(1)))
              /\ UNCHANGED <<table_exists, rows, sqlite_sequence, src>>
    /\ UNCHANGED <<now, app_started>>

\* conn.close(), and the operation returns or raises
ConnClose ==
    /\ inp.pc = "close"
    /\ inp' = Idle(inp.open - 1)
    /\ UNCHANGED <<table_exists, rows, sqlite_sequence, now, app_started, src, res>>

\* the exception leaves the operation
ConnRaise ==
    /\ inp.pc = "raise"
    /\ inp' = Idle(inp.open)
    /\ UNCHANGED <<table_exists, rows, sqlite_sequence, now, app_started, src, res>>

NextConn ==
    ConnCall \/ ConnConnect \/ ConnStatement \/ ConnStatementRaises \/ ConnClose \/ ConnRaise

SpecConn == InitConn /\ [][NextConn]_vars

\* C24: every store operation opens a connection of its own and has closed
\* it by the time it returns or raises, on the success path and on every
\* failure path: between operations no connection is open.
C24_ClosedBetweenOperations ==
    inp.op = "none" => inp.open = 0

(***************************************************************************)
(* SpecConcurrent: POST /save-from-file and parse_results_to_db.py run at  *)
(* the same time on one startup_research.db.  Each run takes its           *)
(* candidates in order; an INSERT is a transaction of its own, which holds *)
(* the write lock of the database from its execute to its commit.  inp is  *)
(* the position of the two runs: per run the candidates given, those left, *)
(* the outcome of each one taken, the count of saved ones and the row      *)
(* executed but not committed; and the holder of the write lock.           *)
(***************************************************************************)
Runs == {"api", "p2d"}

ConcurrentItems == {cCanon, cUnbindable, cNoKey}

RunOf(startups) ==
    [given |-> startups, todo |-> startups, log |-> <<>>, saved |-> 0,
     pc |-> "loop", pending |-> <<>>]

\* a writer that does not look at the lock
LockIgnored(lock) == TRUE

\* cursor.execute('INSERT ...') starts its transaction when no other
\* connection holds the write lock
LockFree(lock) == lock = "none"

\* both runs are started on their lists, over a store that holds an
\* earlier row; save_startups_to_db calls create_startup_database() first
ConcurrentStart ==
    \E api_startups, p2d_startups \in SeqsUpTo(ConcurrentItems, MaxItems) \ {<<>>} :
        /\ app_started
        /\ rows # <<>>
        /\ inp = <<>>
        /\ inp' = [api |-> RunOf(api_startups), p2d |-> RunOf(p2d_startups),
                   lock |-> "none", before |-> Len(rows)]
        /\ table_exists' = TRUE
        /\ res' = Respond("start", 0, "", 0, 0, <<>>, <<>>)
        /\ UNCHANGED <<rows, sqlite_sequence, now, app_started, src>>

Taken(run, saved) ==
    [run EXCEPT !.todo = Tail(@),
                !.log = Append(@, [cand |-> Head(run.todo), saved |-> saved]),
                !.saved = IF saved THEN @ + 1 ELSE @,
                !.pc = "loop",
                !.pending = <<>>]

Ready(r) == inp # <<>> /\ inp[r].pc = "loop" /\ inp[r].todo # <<>>

Accepted(startup) == IsDict(startup) /\ Truthy(LoopCompanyName(startup))

\* the loop passes over a candidate that is no dict or has no name
ConcurrentSkip ==
    \E r \in Runs :
        /\ Ready(r)
        /\ ~Accepted(Head(inp[r].todo))
        /\ inp' = [inp EXCEPT ![r] = Taken(@, FALSE)]
        /\ UNCHANGED <<table_exists, rows, sqlite_sequence, now, app_started, src, res>>

\* save_startup_to_db up to its execute: the INSERT raises (the except
\* branch rolls back and returns False) or its row waits for the commit
ConcurrentExecute ==
    \E r \in Runs :
        /\ Ready(r)
        /\ Accepted(Head(inp[r].todo))
        /\ LockFree(inp.lock)
        /\ \E params \in {InsertParams(Head(inp[r].todo))} :
              IF InsertSucceeds(params)
              THEN inp' = [inp EXCEPT
                              ![r].pc = "commit",
                              ![r].pending = StoredRow(params, sqlite_sequence + 1, now),
                              !.lock = r]
              ELSE inp' = [inp EXCEPT ![r] = Taken(@, FALSE)]
        /\ UNCHANGED <<table_exists, rows, sqlite_sequence, now, app_started, src, res>>

\* the other run holds the write lock until the busy timeout of sqlite3
\* ends: execute raises "database is locked", the except branch rolls back
\* and returns False
ConcurrentLocked ==
    \E r \in Runs :
        /\ Ready(r)
        /\ Accepted(Head(inp[r].todo))
        /\ ~LockFree(inp.lock)
        /\ inp' = [inp EXCEPT ![r] = Taken(@, FALSE)]
        /\ UNCHANGED <<table_exists, rows, sqlite_sequence, now, app_started, src, res>>

\* conn.commit(), return True, saved_count += 1
ConcurrentCommit ==
    \E r \in Runs :
        /\ inp # <<>>
        /\ inp[r].pc = "commit"
        /\ rows' = Append(rows, inp[r].pending)
        /\ sqlite_sequence' = inp[r].pending.id.n
        /\ src' = Append(src, [cand |-> Head(inp[r].todo), via |-> r])
        /\ inp' = [inp EXCEPT ![r] = Taken(@, TRUE), !.lock = "none"]
        /\ UNCHANGED <<table_exists, now, app_started, res>>

NextConcurrent ==
    \/ QueryStart
    \/ RequestPrior
    \/ ConcurrentStart
    \/ ConcurrentSkip
    \/ ConcurrentExecute
    \/ ConcurrentLocked
    \/ ConcurrentCommit

SpecConcurrent == Init /\ [][NextConcurrent]_vars

\* the candidates a run has reported saved, in the order it took them
SavedOf(log) ==
    [i \in 1..Len(SelectSeq(log, LAMBDA e : e.saved)) |->
        SelectSeq(log, LAMBDA e : e.saved)[i].cand]

\* the candidates of the rows a run has added, in the order of the rows
AddedBy(r) ==
    [i \in 1..Len(SelectSeq(SubSeq(src, inp.before + 1, Len(src)), LAMBDA h : h.via = r)) |->
        SelectSeq(SubSeq(src, inp.before + 1, Len(src)), LAMBDA h : h.via = r)[i].cand]

BothDone == inp # <<>> /\ \A r \in Runs : inp[r].todo = <<>>

\* C25: when an API save-from-file request and the CLI parser interleave
\* their per-record inserts on one store, every record of either run is
\* persisted exactly once or reported as not saved by its own run: the
\* rows a run has added are the candidates it counts as saved, one row
\* each and in its order; every row is written whole; all ids are
\* distinct; the row count is the initial count plus the two saved counts;
\* and at the end each run has an outcome for each of its candidates.
C25_Interleaved ==
    inp # <<>> =>
        /\ \A i, j \in 1..Len(rows) : i # j => rows[i].id # rows[j].id
        /\ Len(rows) = inp.before + inp.api.saved + inp.p2d.saved
        /\ \A r \in Runs :
              /\ AddedBy(r) = SavedOf(inp[r].log)
              /\ inp[r].saved = Len(SavedOf(inp[r].log))
        /\ \A i \in (inp.before + 1)..Len(rows) :
              rows[i] = StoredRow(InsertParams(src[i].cand), rows[i].id.n, rows[i].created_at.n)
        /\ BothDone =>
              \A r \in Runs :
                  /\ Len(inp[r].log) = Len(inp[r].given)
                  /\ \A i \in 1..Len(inp[r].given) : inp[r].log[i].cand = inp[r].given[i]

\* both runs are through: their rows alternate after an earlier row, and
\* one run has reported a candidate not saved that met the other's lock
C25_Witness ==
    /\ BothDone
    /\ inp.before = 1
    /\ Len(rows) = 4
    /\ src[2].via = "api"
    /\ src[3].via = "p2d"
    /\ src[4].via = "api"
    /\ inp.api.saved = 2
    /\ inp.p2d.saved = 1
    /\ inp.p2d.log = <<[cand |-> cCanon, saved |-> FALSE], [cand |-> cCanon, saved |-> TRUE]>>

(***************************************************************************)
(* The saved count of an ingest, over SpecSchema                           *)
(***************************************************************************)
\* C26: for every ingest through any entry point, the row count of the
\* store grows by exactly the saved count the ingest reports; a failed
\* insert is never counted as saved.
C26_SavedCountIsGrowth ==
    res.op \in {"save_from_file", "p2d_main", "parse_and_save_result_file"} =>
        Len(rows) = res.pre + res.saved

(***************************************************************************)
(* The three entry points on one file, over SpecRequest                    *)
(***************************************************************************)
\* the rows api.py save_from_file leaves when it ingests the file of the
\* request over the store the request found
RowsOfApi ==
    ApiSaveLoop(Pass(inp.before, Len(inp.before), <<>>, 0),
                parse_result_file(FileText(inp.dir, inp.filename))).rows

\* C27: the three ingestion entry points are equivalent: on the same file
\* (named otherwise than the keyword "all") and equal stores, parse_results_to_db.py and research_startups.py
\* accept the candidates api.py save_from_file accepts and leave the same
\* rows, with the same field values, in the same order.
C27_EntryPointsAgree ==
    (Answered /\ inp.filename # name_all /\ PathExists(inp.dir, inp.filename))
    => rows = RowsOfApi

(***************************************************************************)
(* SpecRoundTrip: export_to_json over stores built by POST /save-from-file, *)
(* and the exported file ingested by parse_results_to_db.py into an empty  *)
(* store                                                                   *)
(***************************************************************************)
cNullIndustry ==
    PyDict(<<Member(keys.company_name, PyStr(txt_Beta_Inc)),
             Member(keys.industry, None),
             Member(keys.founders, list_B_A)>>)

RoundTripItems == {AcmeRecord, cAlias, cNullIndustry}

RoundTripIngest ==
    \E cand \in RoundTripItems :
        /\ Len(rows) < MaxRows
        /\ save_from_file(name_research_results_json, RecordDir(cand))
        /\ UNCHANGED inp

NextRoundTrip == QueryStart \/ RoundTripIngest \/ SpecTick \/ ExportRun

SpecRoundTrip == Init /\ [][NextRoundTrip]_vars

\* the rows parse_results_to_db.py makes of a file in an empty store
Reingested(text) ==
    P2dSaveLoop(Pass(<<>>, 0, <<>>, 0), p2d_parse_result_file(text)).rows

SameFields(back, t) ==
    /\ Len(back) = Len(t)
    /\ \A i \in 1..Len(t) : \A c \in Columns : back[i][c] = t[i][c]

\* C28: for every store state reachable by ingestion, exporting it with
\* export_to_json and ingesting the exported file into an empty store
\* yields the same number of records, each equal to its original in every
\* field but id and created_at, the null scalar fields and the sequence
\* fields included.
C28_ExportIngestRoundTrip ==
    (res.op = "export_to_json" /\ res.files # <<>>) =>
        \E t \in CreatedAtDesc(rows) : SameFields(Reingested(res.files[1].text), t)

====
